---------------------------- MODULE Spec2Model ----------------------------
(***************************************************************************)
(* A model of the Game of Life application: the sparse generation step of  *)
(* lib/gameLogic.ts, the pattern catalog of lib/patterns.ts and the        *)
(* GameScreen component of app/(tabs)/index.tsx (live set, run state,      *)
(* generation counter, interval timer, button handlers, paint handler).    *)
(*                                                                         *)
(* A string of the program is a sequence of one-character strings, so that *)
(* coordsToString and stringToCoords are modelled by what they do to the   *)
(* characters.  A GridState (a JavaScript Set<string>) is a set of such    *)
(* keys; the insertion order of the Set is not modelled, no modelled       *)
(* operation depends on it.                                                *)
(***************************************************************************)
EXTENDS Integers, Sequences, FiniteSets, Bags, TLC

VARIABLES
    liveCells,          \* useState<GridState>: the published live set
    isRunning,          \* useState<boolean>
    generation,         \* useState<number>
    intervalRef,        \* intervalRef.current # null: the interval timer is set
    effectPending,      \* a render with a new isRunning is committed, its effect not yet run
    viewCenterCoords,   \* shared value {row, col}
    lastOp,             \* history: the handler that ran last
    prevCells,          \* history: the live set that handler started from
    prevGeneration,     \* history: the generation counter that handler started from
    initCells,          \* history: the live set the run started from
    seed,               \* history: the pattern and origin seeded, or the cell painted
    opCount,            \* history: how many paint requests the run has applied
    cellSizeDP,                 \* shared value: the size of a cell in DPs
    gridContainerMeasurements,  \* useState {x, y, width, height, measured}
    panGestureContext,          \* shared value {startRow, startCol}
    pinchStartContext,          \* shared value {startCellSize, startViewCenter}
    contacts,                   \* how many fingers touch the grid
    begun,                      \* the gestures whose onBegin has run and that have not ended
    stroke,             \* history: what the updates of the stroke under way have done
    lastActivatedCellCoords,    \* ref: the cell the stroke painted last, or NULL
    sentCells,          \* history: the paint requests the current stroke has sent
    lastDrawExecutionTimeRef,   \* ref: Date.now() of the last paint update let through
    lastEvent,          \* history: the event of the last gesture update
    prevView,           \* history: center and cell size before that update
    viewOps,            \* history: how many gesture updates the run has applied
    heap,               \* the Set objects allocated so far, by identity
    liveRef,            \* the identity of the Set object the liveCells state holds
    liveCellsRef,       \* the identity of the Set object the renderer's ref holds
    prevRef,            \* history: the object the state held before the last setLiveCells
    frame,              \* what the frame being drawn has read so far
    viewHistory,        \* history: every viewport a gesture update started from
    codec,              \* the last call of the key functions: its input and result
    inFlight,           \* runOnJS(handleDraw) calls sent and not yet run, oldest first
    pendingUpdates,     \* updaters handed to setLiveCells and not yet applied
    expected,           \* history: the live set if each handler had been applied as it ran
    loop                \* the render loop of MainGridView: its refs and the frames requested

\* the one element of a set of one element: The({f(v) : v \in {e}}) is f(e)
\* with e evaluated once
The(S) == CHOOSE x \in S : TRUE

vars == <<liveCells, isRunning, generation, intervalRef, effectPending,
          viewCenterCoords, lastOp, prevCells, prevGeneration, initCells, seed,
          opCount, cellSizeDP, gridContainerMeasurements, panGestureContext,
          pinchStartContext, contacts, begun, stroke, lastActivatedCellCoords,
          sentCells, lastDrawExecutionTimeRef, lastEvent, prevView, viewOps,
          heap, liveRef, liveCellsRef, prevRef, frame, viewHistory, codec,
          inFlight, pendingUpdates, expected, loop>>

-----------------------------------------------------------------------------
(* Bounds of the model *)

\* rows of the grid the pure-function specifications draw their sets from: -1 .. GridRowMax
GridRowMax == 1
\* pattern origins are drawn from -OriginSpan .. OriginSpan in both directions
OriginSpan == 2
\* the timer and the step button are modelled up to this generation
MaxGen == 4
\* gesture updates, layouts and frame reads are modelled up to this many per run
MaxViewOps == 2
\* PixelRatio.get(): physical pixels per DP of the device
PixelRatio == 2
\* paint requests and timer ticks are dispatched up to this many per run
MaxDispatches == 3
\* animation frames are requested up to this many per run
MaxFrames == 6
\* Set objects are allocated up to this many per run
MaxObjects == 4
\* paint updates are modelled up to this many per run of strokes
MaxStrokeUpdates == 3
\* fingers land on the grid up to this many at a time
MaxContacts == 2

-----------------------------------------------------------------------------
(* Program constants *)

DRAW_THROTTLE_MS == 30
INITIAL_CELL_SIZE_DP == 25
MIN_CELL_SIZE_DP == 5
MAX_CELL_SIZE_DP == 100
MAX_COORD_VALUE == 1000000
MIN_COORD_VALUE == -1000000
RandomizeRange == 30
RandomizeLoopLimit == 1000

\* the null a function returns in place of a Coordinates object
NULL == [null |-> TRUE]
\* a number is a record so that NaN and the integers compare: NaN is [nan |-> TRUE]
NaN == [nan |-> TRUE, value |-> 0]
Num(n) == [nan |-> FALSE, value |-> n]
isNaN(x) == x.nan

-----------------------------------------------------------------------------
(* Strings: template literal, split, parseInt *)

Digits == <<"0", "1", "2", "3", "4", "5", "6", "7", "8", "9">>

IsDigit(ch) == \E i \in 1..10 : Digits[i] = ch

DigitVal(ch) == (CHOOSE i \in 1..10 : Digits[i] = ch) - 1

RECURSIVE NatToStr(_)
NatToStr(n) ==
    IF n < 10 THEN <<Digits[n + 1]>>
    ELSE NatToStr(n \div 10) \o <<Digits[(n % 10) + 1]>>

\* a conversion that drops the sign
NumToStrUnsigned(n) == IF n < 0 THEN NatToStr(-n) ELSE NatToStr(n)

\* String(n) of an integer number n below 1e21
NumToStr(n) == IF n < 0 THEN <<"-">> \o NatToStr(-n) ELSE NatToStr(n)

coordsToString(row, col) == NumToStr(row) \o <<",">> \o NumToStr(col)

\* str.split(sep) for a one-character separator
RECURSIVE Split(_, _)
Split(str, sep) ==
    IF \E i \in 1..Len(str) : str[i] = sep
    THEN LET i == CHOOSE k \in 1..Len(str) :
                      str[k] = sep /\ \A j \in 1..(k - 1) : str[j] # sep
         IN  <<SubSeq(str, 1, i - 1)>> \o Split(SubSeq(str, i + 1, Len(str)), sep)
    ELSE <<str>>

\* StrWhiteSpaceChar, the characters parseInt skips: WhiteSpace and
\* LineTerminator.  A character that has no literal is written as its code point
IsWhiteSpace(ch) ==
    ch \in {" ", "\t", "\n", "\r", "\f", "U+000B", "U+00A0", "U+1680", "U+2000",
            "U+2001", "U+2002", "U+2003", "U+2004", "U+2005", "U+2006", "U+2007",
            "U+2008", "U+2009", "U+200A", "U+2028", "U+2029", "U+202F", "U+205F",
            "U+3000", "U+FEFF"}

RECURSIVE SkipWhiteSpace(_)
SkipWhiteSpace(s) ==
    IF Len(s) > 0 /\ IsWhiteSpace(s[1]) THEN SkipWhiteSpace(Tail(s)) ELSE s

\* the value of the longest prefix of decimal digits of s, continuing from acc
RECURSIVE DigitsPrefix(_, _)
DigitsPrefix(s, acc) ==
    IF Len(s) > 0 /\ IsDigit(s[1])
    THEN DigitsPrefix(Tail(s), acc * 10 + DigitVal(s[1]))
    ELSE acc

\* parseInt(s, 10): leading white space, an optional sign, then the longest
\* prefix of digits; NaN when there is no digit
ParseInt(s) ==
    LET t    == SkipWhiteSpace(s)
        neg  == Len(t) > 0 /\ t[1] = "-"
        body == IF Len(t) > 0 /\ t[1] \in {"-", "+"} THEN Tail(t) ELSE t
    IN  IF Len(body) > 0 /\ IsDigit(body[1])
        THEN Num(IF neg THEN -DigitsPrefix(body, 0) ELSE DigitsPrefix(body, 0))
        ELSE NaN

stringToCoords(str) ==
    LET parts == Split(str, ",")
    IN  IF Len(parts) # 2 THEN NULL
        ELSE LET row == ParseInt(parts[1])
                 col == ParseInt(parts[2])
             IN  IF isNaN(row) \/ isNaN(col) THEN NULL
                 ELSE [row |-> row.value, col |-> col.value]

\* a grid that keeps a cell
GridWithOrigin == {coordsToString(0, 0)}

\* createEmptyGrid(): new Set<string>()
createEmptyGrid == {}

-----------------------------------------------------------------------------
(* calculateNextGeneration *)

\* the (dr, dc) pairs in the order of the two nested loops
NeighborhoodLoop ==
    <<  <<-1, -1>>, <<-1, 0>>, <<-1, 1>>,
        <<0, -1>>,  <<0, 0>>,  <<0, 1>>,
        <<1, -1>>,  <<1, 0>>,  <<1, 1>> >>

\* the Map<string, number> of birth candidates is a bag of keys:
\* candidates.set(k, (candidates.get(k) || 0) + 1) is candidates (+) SetToBag({k})

\* countLiveNeighbors: the live cells among the eight around (row, col)
countLiveNeighbors(cells, row, col) ==
    Cardinality({d \in ((-1 .. 1) \X (-1 .. 1)) \ {<<0, 0>>} :
                    coordsToString(row + d[1], col + d[2]) \in cells})

\* a 3x3 loop that does not skip the cell itself
NeighborKeysWithSelf(row, col) ==
    {coordsToString(row + NeighborhoodLoop[i][1], col + NeighborhoodLoop[i][2]) :
        i \in 1..Len(NeighborhoodLoop)}

\* the keys of the eight cells the 3x3 loop tests around (row, col), the cell
\* itself skipped
NeighborKeys(row, col) ==
    {coordsToString(row + NeighborhoodLoop[i][1], col + NeighborhoodLoop[i][2]) :
        i \in {j \in 1..Len(NeighborhoodLoop) :
                  NeighborhoodLoop[j][1] # 0 \/ NeighborhoodLoop[j][2] # 0}}

\* the 3x3 loop around one live cell: a live neighbor adds one to
\* currentLiveNeighbors, a dead one adds one to its entry of candidates
ScanNeighborhood(cells, row, col, candidates) ==
    LET live == NeighborKeys(row, col) \cap cells
        dead == NeighborKeys(row, col) \ cells
    IN  [count |-> Cardinality(live), candidates |-> candidates (+) SetToBag(dead)]

\* a survival rule that forgets the case of two neighbors
SurvivalRuleOnlyThree(currentLiveNeighbors) == currentLiveNeighbors = 3

SurvivalRuleHolds(currentLiveNeighbors) ==
    currentLiveNeighbors = 2 \/ currentLiveNeighbors = 3

\* a birth rule with >= in place of ===
BirthRuleAtLeastThree(neighborCount) == neighborCount >= 3

BirthRuleHolds(neighborCount) == neighborCount = 3

\* pass 1: the loop over the live cells; todo are the cells not yet visited
RECURSIVE LiveCellPass(_, _, _, _)
LiveCellPass(cells, todo, nextLiveCells, candidates) ==
    IF todo = {} THEN [nextLiveCells |-> nextLiveCells, candidates |-> candidates]
    ELSE The({The({IF coords = NULL
                   THEN LiveCellPass(cells, todo \ {cellStr}, nextLiveCells, candidates)
                   ELSE The({LiveCellPass(cells, todo \ {cellStr},
                                 IF SurvivalRuleHolds(scan.count)
                                 THEN nextLiveCells \cup {cellStr}
                                 ELSE nextLiveCells,
                                 scan.candidates) :
                                scan \in {ScanNeighborhood(cells, coords.row, coords.col,
                                                           candidates)}}) :
                      coords \in {stringToCoords(cellStr)}}) :
                 cellStr \in {CHOOSE c \in todo : TRUE}})

\* a scan that tests every row from row 0 to the rows around the cell
ChecksFromOrigin(cells, row, col) == 3 * ((IF row < 0 THEN -row ELSE row) + 2)

\* the liveCells.has(neighborStr) calls of the 3x3 loop around one live cell:
\* one for each (dr, dc) other than (0, 0)
ChecksAround(cells, row, col) ==
    Cardinality({i \in 1..Len(NeighborhoodLoop) :
                    NeighborhoodLoop[i][1] # 0 \/ NeighborhoodLoop[i][2] # 0})

\* the liveCells.has calls of pass 1 over the cells of todo
RECURSIVE MembershipChecks(_, _)
MembershipChecks(cells, todo) ==
    IF todo = {} THEN 0
    ELSE LET cellStr == CHOOSE c \in todo : TRUE
             coords  == stringToCoords(cellStr)
         IN  (IF coords = NULL THEN 0 ELSE ChecksAround(cells, coords.row, coords.col))
             + MembershipChecks(cells, todo \ {cellStr})

calculateNextGeneration(cells) ==
    \* pass 2: the candidates with the count of a birth join the survivors
    The({pass1.nextLiveCells \cup {k \in BagToSet(pass1.candidates) :
                                      BirthRuleHolds(CopiesIn(k, pass1.candidates))} :
            pass1 \in {LiveCellPass(cells, cells, {}, EmptyBag)}})


-----------------------------------------------------------------------------
(* The pattern catalog: lists of (dRow, dCol) offsets *)

Block   == << <<0, 0>>, <<0, 1>>, <<1, 0>>, <<1, 1>> >>
Beehive == << <<0, 1>>, <<0, 2>>, <<1, 0>>, <<1, 3>>, <<2, 1>>, <<2, 2>> >>
Loaf    == << <<0, 1>>, <<0, 2>>, <<1, 0>>, <<1, 3>>, <<2, 1>>, <<2, 3>>, <<3, 2>> >>
Boat    == << <<0, 0>>, <<0, 1>>, <<1, 0>>, <<1, 2>>, <<2, 1>> >>
Tub     == << <<0, 1>>, <<1, 0>>, <<1, 2>>, <<2, 1>> >>
Blinker == << <<-1, 0>>, <<0, 0>>, <<1, 0>> >>
Glider  == << <<-1, 0>>, <<0, 1>>, <<1, -1>>, <<1, 0>>, <<1, 1>> >>
\* the cells GameScreen starts with
InitialGlider == << <<0, 1>>, <<1, 2>>, <<2, 0>>, <<2, 1>>, <<2, 2>> >>

stillLifePatterns == [Block |-> Block, Beehive |-> Beehive, Loaf |-> Loaf,
                      Boat |-> Boat, Tub |-> Tub]

Catalog == [Block |-> Block, Beehive |-> Beehive, Loaf |-> Loaf, Boat |-> Boat,
            Tub |-> Tub, Blinker |-> Blinker, Glider |-> Glider,
            InitialGlider |-> InitialGlider]

\* a translation that adds the offsets to the wrong components
patternToCoordsSwapped(relativeCoords, centerRow, centerCol) ==
    [i \in 1..Len(relativeCoords) |->
        coordsToString(centerRow + relativeCoords[i][2], centerCol + relativeCoords[i][1])]

\* pattern.relativeCoords.map(([relRow, relCol]) => coordsToString(...)): a list of keys
patternToCoords(relativeCoords, centerRow, centerCol) ==
    [i \in 1..Len(relativeCoords) |->
        coordsToString(centerRow + relativeCoords[i][1], centerCol + relativeCoords[i][2])]

Range(f) == {f[i] : i \in DOMAIN f}

\* seed(pattern, origin): the union of the current set and the stamped keys
SeedPattern(cells, relativeCoords, centerRow, centerCol) ==
    cells \cup Range(patternToCoords(relativeCoords, centerRow, centerCol))

-----------------------------------------------------------------------------
(* GameScreen: simulation callbacks *)

NoSeed == [name |-> "none", row |-> 0, col |-> 0]

appVars == <<liveCells, isRunning, generation, intervalRef, effectPending,
             viewCenterCoords>>

\* the updater runSimulationStep hands to setLiveCells
NextLiveCells(cells) ==
    The({IF /\ Cardinality(nextCells) = Cardinality(current)
            /\ \A cell \in current : cell \in nextCells
            /\ \A cell \in nextCells : cell \in current
         THEN current ELSE nextCells :
            current \in {cells}, nextCells \in {calculateNextGeneration(cells)}})

runSimulationStep ==
    /\ liveCells' = NextLiveCells(liveCells)
    /\ generation' = generation + 1

Remember(op) ==
    /\ lastOp' = op
    /\ prevCells' = liveCells
    /\ prevGeneration' = generation

\* what the simulation loop effect leaves in intervalRef.current: the interval
\* is cleared, and set again only if isRunning
IntervalAfterEffect(running) == running

\* React runs the effects of the last commit before it renders again: what
\* intervalRef.current holds when a handler's render starts, the handler
\* having left ref there
FlushedInterval(ref) == IF effectPending THEN IntervalAfterEffect(isRunning) ELSE ref

\* a handler whose updaters make React render: the pending run of the loop
\* effect comes first
RenderAfterEffects ==
    /\ intervalRef' = FlushedInterval(intervalRef)
    /\ effectPending' = FALSE

handleToggleRun ==
    /\ isRunning' = ~isRunning
    /\ intervalRef' = FlushedInterval(intervalRef)
    /\ effectPending' = TRUE
    /\ Remember("toggleRun")
    /\ UNCHANGED <<liveCells, generation, viewCenterCoords>>

\* the effect of [isRunning]: the cleanup of the previous run of the effect and
\* the new body.  React runs it after the commit, in a task of its own or
\* before the next render; a timer callback or a handler that is due may run
\* before it.
SimulationLoopEffect ==
    /\ effectPending
    /\ intervalRef' = IntervalAfterEffect(isRunning)
    /\ effectPending' = FALSE
    /\ UNCHANGED <<liveCells, isRunning, generation, viewCenterCoords,
                   lastOp, prevCells, prevGeneration>>

\* the callback of setInterval(runSimulationStep, SIMULATION_INTERVAL_MS) runs
\* as long as the interval is not cleared: nothing in it looks at isRunning
TimerMayFire == intervalRef

TimerTick ==
    /\ TimerMayFire
    /\ generation < MaxGen
    /\ runSimulationStep
    /\ RenderAfterEffects
    /\ Remember("tick")
    /\ UNCHANGED <<isRunning, viewCenterCoords>>

\* a step handler that forgets to look at isRunning
StepAlwaysAllowed(running) == TRUE

\* if (!isRunning) in handleStep
StepAllowed(running) == ~running

handleStep ==
    /\ IF StepAllowed(isRunning)
       THEN /\ generation < MaxGen
            /\ runSimulationStep
            /\ RenderAfterEffects
            /\ Remember("step")
       ELSE /\ Remember("stepIgnored")
            /\ UNCHANGED <<liveCells, generation, intervalRef, effectPending>>
    /\ UNCHANGED <<isRunning, viewCenterCoords>>

\* handleClear clears the interval itself, then queues its updates; the
\* render they cause runs a pending loop effect first, and commits a new
\* isRunning if the simulation was running
handleClear ==
    /\ intervalRef' = FlushedInterval(FALSE)
    /\ isRunning' = FALSE
    /\ liveCells' = createEmptyGrid
    /\ generation' = 0
    /\ effectPending' = isRunning
    /\ Remember("clear")
    /\ UNCHANGED viewCenterCoords

Max(a, b) == IF a > b THEN a ELSE b
Min(a, b) == IF a < b THEN a ELSE b

-----------------------------------------------------------------------------
(* JavaScript numbers: IEEE 754 doubles.  A finite number is s * m * 2^e,    *)
(* the mantissa m kept as 4 limbs in base 2^15, least significant first:     *)
(* 2^52 <= m < 2^53 and e >= -1074, or m < 2^52 and e = -1074 (a subnormal;  *)
(* zero is m = 0).  Every operation rounds its exact result to the nearest   *)
(* double, ties to the even one.  The sign of zero is not kept: -0 and 0     *)
(* print, compare and add alike, and the program divides by no zero.         *)

Abs(x) == IF x < 0 THEN -x ELSE x

LimbBase == 2 ^ 15

Limb(a, i) == IF i >= 1 /\ i <= Len(a) THEN a[i] ELSE 0

IsZero(a) == \A j \in 1 .. Len(a) : a[j] = 0

\* the limbs of a as n limbs
Pad(a, n) == SubSeq([j \in 1 .. n |-> Limb(a, j)], 1, n)

\* the number of bits of a: 0 for zero
BitLen(a) ==
    The({IF IsZero(v) THEN 0
         ELSE The({15 * (i - 1) + (CHOOSE k \in 1 .. 15 : 2 ^ (k - 1) <= v[i] /\ v[i] < 2 ^ k) :
                      i \in {CHOOSE k \in 1 .. Len(v) :
                                v[k] # 0 /\ \A j \in (k + 1) .. Len(v) : v[j] = 0}}) :
            v \in {a}})

\* bit k of a, bit 0 the least significant
Bit(a, k) == The({(Limb(v, (i \div 15) + 1) \div (2 ^ (i % 15))) % 2 : v \in {a}, i \in {k}})

\* a * 2^k as n limbs, for a product that fits them
Shl(a, k, n) ==
    The({SubSeq([j \in 1 .. n |-> (Limb(v, j - q) % (2 ^ (15 - r))) * (2 ^ r)
                                  + (Limb(v, j - q - 1) \div (2 ^ (15 - r)))], 1, n) :
            v \in {a}, q \in {k \div 15}, r \in {k % 15}})

\* a \div 2^k as n limbs
Shr(a, k, n) ==
    The({SubSeq([j \in 1 .. n |-> (Limb(v, j + q) \div (2 ^ r))
                                  + (Limb(v, j + q + 1) % (2 ^ r)) * (2 ^ (15 - r))], 1, n) :
            v \in {a}, q \in {k \div 15}, r \in {k % 15}})

\* a % 2^k = 0
LowBitsZero(a, k) ==
    \E v \in {a}, i \in {k} :
        /\ \A j \in 1 .. Len(v) : j > i \div 15 \/ v[j] = 0
        /\ Limb(v, (i \div 15) + 1) % (2 ^ (i % 15)) = 0

\* -1, 0, 1 as a < b, a = b, a > b, for a and b of as many limbs
Cmp(a, b) ==
    The({IF v = w THEN 0
         ELSE The({IF v[i] < w[i] THEN -1 ELSE 1 :
                      i \in {CHOOSE k \in 1 .. Len(v) :
                                v[k] # w[k] /\ \A j \in (k + 1) .. Len(v) : v[j] = w[j]}}) :
            v \in {a}, w \in {b}})

RECURSIVE AddFrom(_, _, _, _, _)
AddFrom(a, b, i, carry, acc) ==
    IF i > Len(a) THEN acc
    ELSE The({AddFrom(a, b, i + 1, t \div LimbBase, Append(acc, t % LimbBase)) :
                 t \in {a[i] + Limb(b, i) + carry}})

\* a + b as the limbs of a, for a sum that fits them
Add(a, b) == The({AddFrom(v, w, 1, 0, <<>>) : v \in {a}, w \in {b}})

RECURSIVE SubFrom(_, _, _, _, _)
SubFrom(a, b, i, borrow, acc) ==
    IF i > Len(a) THEN acc
    ELSE The({SubFrom(a, b, i + 1, IF t < 0 THEN 1 ELSE 0,
                      Append(acc, IF t < 0 THEN t + LimbBase ELSE t)) :
                 t \in {a[i] - Limb(b, i) - borrow}})

\* a - b as the limbs of a, for a >= b
Sub(a, b) == The({SubFrom(v, w, 1, 0, <<>>) : v \in {a}, w \in {b}})

RECURSIVE MulLimbFrom(_, _, _, _, _)
MulLimbFrom(a, d, i, carry, acc) ==
    IF i > Len(a) THEN Append(acc, carry)
    ELSE The({MulLimbFrom(a, d, i + 1, t \div LimbBase, Append(acc, t % LimbBase)) :
                 t \in {a[i] * d + carry}})

\* a * d for a limb d, one limb longer than a
MulLimb(a, d) == The({MulLimbFrom(v, w, 1, 0, <<>>) : v \in {a}, w \in {d}})

RECURSIVE MulFrom(_, _, _, _)
MulFrom(a, b, j, acc) ==
    IF j > Len(b) THEN acc
    ELSE IF b[j] = 0 THEN MulFrom(a, b, j + 1, acc)
    ELSE The({MulFrom(a, b, j + 1, sum) :
                 sum \in {Add(acc, [k \in 1 .. (j - 1) |-> 0] \o MulLimb(a, b[j]))}})

\* a * b, as many limbs as a and b together
Mul(a, b) == The({MulFrom(v, w, 1, [k \in 1 .. (Len(v) + Len(w)) |-> 0]) : v \in {a}, w \in {b}})

\* division by a limb d, from the top limb down: the quotient as the limbs of
\* a, and whether a remainder is left
RECURSIVE DivLimbFrom(_, _, _, _, _)
DivLimbFrom(a, d, i, rem, acc) ==
    IF i = 0 THEN [q |-> acc, inexact |-> rem # 0]
    ELSE The({DivLimbFrom(a, d, i - 1, t % d, <<t \div d>> \o acc) :
                 t \in {rem * LimbBase + a[i]}})

\* the quotient limb of rem by d, for rem < d * 2^15 and a d of n limbs whose
\* top limb has its top bit set: at most two below the quotient of the top limbs
QuotientLimb(rem, d) ==
    The({CHOOSE c \in (guess - 2) .. guess :
             /\ c >= 0
             /\ Cmp(MulLimb(d, c), rem) <= 0
             /\ c = guess \/ Cmp(MulLimb(d, c + 1), rem) > 0 :
            guess \in {LET top == (rem[Len(d) + 1] * LimbBase + rem[Len(d)]) \div d[Len(d)]
                       IN  IF top > LimbBase - 1 THEN LimbBase - 1 ELSE top}})

\* long division limb by limb, from limb i down: rem the remainder so far, one
\* limb longer than d, acc the quotient limbs found
RECURSIVE DivLongFrom(_, _, _, _, _)
DivLongStep(a, d, i, t, acc) ==
    The({DivLongFrom(a, d, i - 1, Sub(t, MulLimb(d, c)), <<c>> \o acc) :
            c \in {QuotientLimb(t, d)}})

DivLongFrom(a, d, i, rem, acc) ==
    IF i = 0 THEN [q |-> acc, inexact |-> ~IsZero(rem)]
    ELSE The({DivLongStep(a, d, i, t, acc) :
                 t \in {<<a[i]>> \o SubSeq(rem, 1, Len(d))}})

\* a \div d as the limbs of a, and whether a remainder is left, for a d whose
\* top limb is not zero: for the long division both are shifted first so that
\* the top limb of d has its top bit set
DivMod(a, d) ==
    The({IF Len(w) = 1 THEN DivLimbFrom(v, w[1], Len(v), 0, <<>>)
         ELSE The({DivLongFrom(n, m, Len(n), [k \in 1 .. (Len(w) + 1) |-> 0], <<>>) :
                      n \in {Shl(v, 15 * Len(w) - BitLen(w), Len(v) + 1)},
                      m \in {Shl(w, 15 * Len(w) - BitLen(w), Len(w))}}) :
            v \in {a}, w \in {d}})

Zero == [t |-> "fin", s |-> 1, m |-> <<0, 0, 0, 0>>, e |-> -1074]
PosInf == [t |-> "inf", s |-> 1, m |-> <<0, 0, 0, 0>>, e |-> 0]
NegInf == [t |-> "inf", s |-> -1, m |-> <<0, 0, 0, 0>>, e |-> 0]
FNaN == [t |-> "nan", s |-> 1, m |-> <<0, 0, 0, 0>>, e |-> 0]

isFinite(x) == x.t = "fin"
Sign(x) == IF x.t = "fin" /\ x.m = <<0, 0, 0, 0>> THEN 0 ELSE x.s
InfOfSign(s) == IF s < 0 THEN NegInf ELSE PosInf

\* s * m * 2^e for a mantissa of at most 2^53: 2^53 is 2^52 with the next
\* exponent, 2^1024 and more is Infinity
Finish(s, m, e) ==
    The({IF v = <<0, 0, 0, 0>> THEN Zero
         ELSE IF v[4] = 256
              THEN (IF e + 1 > 971 THEN InfOfSign(s)
                    ELSE [t |-> "fin", s |-> s, m |-> <<0, 0, 0, 128>>, e |-> e + 1])
         ELSE IF e > 971 THEN InfOfSign(s)
         ELSE [t |-> "fin", s |-> s, m |-> v, e |-> e] : v \in {m}})

\* the bits of a above bit sh, one more when the bits below are more than a
\* half, or are the half and the bits above are odd
RoundedBits(a, sh, sticky) ==
    The({IF /\ Bit(a, sh - 1) = 1
            /\ (sticky \/ ~LowBitsZero(a, sh - 1) \/ keep[1] % 2 = 1)
         THEN Add(keep, <<1>>) ELSE keep : keep \in {Shr(a, sh, 4)}})

\* the double nearest to s * (a + f) * 2^e, where f is 0 or, when sticky, some
\* fraction strictly between 0 and 1 (a then has 55 bits or more): the lowest
\* bit kept is bit q, 52 below the top bit and not below -1074
Round(s, a, e, sticky) ==
    The({IF q <= e THEN Finish(s, Shl(v, e - q, 4), q)
         ELSE Finish(s, RoundedBits(v, q - e, sticky), q) :
            v \in {a},
            q \in {IF e + BitLen(a) - 53 < -1074 THEN -1074 ELSE e + BitLen(a) - 53}})

\* the number an integer of less than 31 bits stands for: its bits moved up
\* to bits 30 .. 0, which are bits 52 .. 22 of the mantissa
IntNum(i) ==
    IF i = 0 THEN Zero
    ELSE The({The({[t |-> "fin", s |-> IF i < 0 THEN -1 ELSE 1,
                    m |-> <<0, (top % 256) * 128, (top \div 256) % LimbBase, top \div (2 ^ 23)>>,
                    e |-> len - 53] : top \in {Abs(i) * (2 ^ (31 - len))}}) :
                 len \in {CHOOSE k \in 1 .. 31 : 2 ^ (k - 1) <= Abs(i) /\ Abs(i) \div 2 <  2 ^ (k - 1)}})

\* the integer a number with an integer value of less than 31 bits stands for
ToInt(x) ==
    The({IF v.m = <<0, 0, 0, 0>> THEN 0
         ELSE v.s * ((v.m[4] * (2 ^ 23) + v.m[3] * 256 + v.m[2] \div 128) \div (2 ^ (-v.e - 22))) :
            v \in {x}})

\* |x| < |y| for finite x and y
MagLess(x, y) == x.e < y.e \/ (x.e = y.e /\ Cmp(x.m, y.m) < 0)

FNegImpl(x) == IF x.t = "nan" \/ Sign(x) = 0 THEN x ELSE [x EXCEPT !.s = -x.s]

\* the sum of hi and lo, finite and not zero, hi.e >= lo.e, as what is to be
\* rounded: when lo is below the bits of hi that count it only makes the sum
\* inexact, otherwise the mantissas are added or subtracted at the exponent of lo
SumParts(hi, lo) ==
    IF hi.e - lo.e > 64
    THEN [s |-> hi.s, e |-> hi.e - 3, sticky |-> TRUE,
          a |-> IF hi.s = lo.s THEN Shl(hi.m, 3, 4) ELSE Sub(Shl(hi.m, 3, 4), <<1>>)]
    ELSE The({IF hi.s = lo.s
              THEN [s |-> hi.s, e |-> lo.e, sticky |-> FALSE, a |-> Add(a, b)]
              ELSE IF Cmp(a, b) >= 0
                   THEN [s |-> hi.s, e |-> lo.e, sticky |-> FALSE, a |-> Sub(a, b)]
              ELSE [s |-> lo.s, e |-> lo.e, sticky |-> FALSE, a |-> Sub(b, a)] :
                 a \in {Shl(hi.m, hi.e - lo.e, 8)}, b \in {Pad(lo.m, 8)}})

FAddImpl(x, y) ==
    IF x.t = "nan" \/ y.t = "nan" THEN FNaN
    ELSE IF x.t = "fin" /\ y.t = "fin"
         THEN (IF Sign(x) = 0 THEN y
               ELSE IF Sign(y) = 0 THEN x
               ELSE The({Round(p.s, p.a, p.e, p.sticky) :
                            p \in {IF x.e >= y.e THEN SumParts(x, y) ELSE SumParts(y, x)}}))
    ELSE IF x.t = "fin" THEN y
    ELSE IF y.t = "fin" THEN x
    ELSE IF x.s = y.s THEN x ELSE FNaN

FMulImpl(x, y) ==
    IF x.t = "nan" \/ y.t = "nan" THEN FNaN
    ELSE IF x.t = "fin" /\ y.t = "fin"
         THEN Round(x.s * y.s, Mul(x.m, y.m), x.e + y.e, FALSE)
    ELSE IF Sign(x) = 0 \/ Sign(y) = 0 THEN FNaN
    ELSE InfOfSign(Sign(x) * Sign(y))

\* the limbs of a mantissa other than zero from its lowest to its highest
\* limb that is not zero
Significant(m) ==
    SubSeq(m, CHOOSE k \in 1 .. 4 : m[k] # 0 /\ \A j \in 1 .. (k - 1) : m[j] = 0,
              CHOOSE k \in 1 .. 4 : m[k] # 0 /\ \A j \in (k + 1) .. 4 : m[j] = 0)

\* the zero limbs below the lowest limb of a mantissa that is not zero
LowZeroLimbs(m) == (CHOOSE k \in 1 .. 4 : m[k] # 0 /\ \A j \in 1 .. (k - 1) : m[j] = 0) - 1

\* the quotient of two finite numbers other than zero: the mantissa of x, moved
\* up to make a quotient of 56 bits or more, by the significant limbs of the
\* mantissa of y
FDivFinite(x, y) ==
    The({The({Round(x.s * y.s, r.q, x.e - y.e - 15 * LowZeroLimbs(y.m) - k, r.inexact) :
                 r \in {DivMod(Shl(x.m, k, 5 + (k \div 15)), d)}}) :
            d \in {Significant(y.m)}, k \in {15 * Len(Significant(y.m)) + 56}})

FDivImpl(x, y) ==
    IF x.t = "nan" \/ y.t = "nan" THEN FNaN
    ELSE IF x.t = "inf" /\ y.t = "inf" THEN FNaN
    ELSE IF y.t = "inf" THEN Zero
    ELSE IF x.t = "inf" THEN InfOfSign(x.s * (IF Sign(y) < 0 THEN -1 ELSE 1))
    ELSE IF Sign(y) = 0 THEN (IF Sign(x) = 0 THEN FNaN ELSE InfOfSign(x.s))
    ELSE IF Sign(x) = 0 THEN Zero
    ELSE FDivFinite(x, y)

FLtImpl(x, y) ==
    IF x.t = "nan" \/ y.t = "nan" THEN FALSE
    ELSE IF x.t = "fin" /\ y.t = "fin"
         THEN IF Sign(x) # Sign(y) THEN Sign(x) < Sign(y)
              ELSE IF Sign(x) = 0 THEN FALSE
              ELSE IF Sign(x) > 0 THEN MagLess(x, y)
              ELSE MagLess(y, x)
    ELSE IF x.t = "inf" /\ y.t = "inf" THEN x.s < y.s
    ELSE IF x.t = "inf" THEN x.s < 0
    ELSE y.s > 0

\* -x
FNeg(x) == The({FNegImpl(a) : a \in {x}})
\* x + y
FAdd(x, y) == The({FAddImpl(a, b) : a \in {x}, b \in {y}})
\* x - y
FSub(x, y) == The({FAddImpl(a, FNegImpl(b)) : a \in {x}, b \in {y}})
\* x * y
FMul(x, y) == The({FMulImpl(a, b) : a \in {x}, b \in {y}})
\* x / y
FDiv(x, y) == The({FDivImpl(a, b) : a \in {x}, b \in {y}})
\* x < y, false when either is NaN
FLt(x, y) == \E a \in {x}, b \in {y} : FLtImpl(a, b)
\* x <= y, false when either is NaN
FLe(x, y) == \E a \in {x}, b \in {y} : a.t # "nan" /\ b.t # "nan" /\ (a = b \/ FLtImpl(a, b))

\* the number a decimal literal n/d of the source denotes
Fin(n, d) == FDiv(IntNum(n), IntNum(d))

\* Math.max and Math.min of two numbers: NaN if either is NaN
MathMax(x, y) ==
    The({IF a.t = "nan" \/ b.t = "nan" THEN FNaN ELSE IF FLtImpl(a, b) THEN b ELSE a :
            a \in {x}, b \in {y}})
MathMin(x, y) ==
    The({IF a.t = "nan" \/ b.t = "nan" THEN FNaN ELSE IF FLtImpl(b, a) THEN b ELSE a :
            a \in {x}, b \in {y}})

\* the integer at or next to a finite x with e < 0, towards zero or, when away
\* and x is no integer, away from it
Whole(x, away) ==
    The({Round(x.s, IF away /\ ~LowBitsZero(x.m, -x.e) THEN Add(whole, <<1>>) ELSE whole,
               0, FALSE) : whole \in {Shr(x.m, -x.e, 4)}})

\* Math.floor and Math.ceil
Floor(x) == The({IF a.t # "fin" \/ a.e >= 0 THEN a ELSE Whole(a, a.s < 0) : a \in {x}})
Ceil(x) == The({IF a.t # "fin" \/ a.e >= 0 THEN a ELSE Whole(a, a.s > 0) : a \in {x}})

-----------------------------------------------------------------------------
(* handleRandomize *)

RandomizeBounds(center) ==
    LET range == IntNum(RandomizeRange)
    IN  [startRow |-> MathMax(IntNum(MIN_COORD_VALUE), Floor(FSub(center.row, range))),
         endRow   |-> MathMin(IntNum(MAX_COORD_VALUE), Ceil(FAdd(center.row, range))),
         startCol |-> MathMax(IntNum(MIN_COORD_VALUE), Floor(FSub(center.col, range))),
         endCol   |-> MathMin(IntNum(MAX_COORD_VALUE), Ceil(FAdd(center.col, range)))]

\* the values for (x = start; x < end; ++x) visits: none when a bound is not
\* finite, since start is then Infinity or NaN, or end is -Infinity or NaN
LoopValues(start, end) ==
    IF isFinite(start) /\ isFinite(end) THEN ToInt(start) .. (ToInt(end) - 1) ELSE {}

\* the (r, c) the two loops visit
RandomizeRows(b) == LoopValues(b.startRow, b.endRow)
RandomizeCols(b) == LoopValues(b.startCol, b.endCol)

\* endRow - startRow > 1000 || endCol - startCol > 1000
RandomizeTooLarge(b) ==
    \/ FLt(IntNum(RandomizeLoopLimit), FSub(b.endRow, b.startRow))
    \/ FLt(IntNum(RandomizeLoopLimit), FSub(b.endCol, b.startCol))

\* const density = 0.2
RandomizeDensity == Fin(1, 5)

\* what Math.random() returns, call after call, is written as runs: a run
\* [value, count] stands for `count` calls that return `value`, and after the
\* last run the first one follows again

\* the calls one period of the runs stands for
RECURSIVE RunsLength(_)
RunsLength(runs) ==
    IF runs = <<>> THEN 0 ELSE Head(runs).count + RunsLength(Tail(runs))

\* the calls of one period, counted from 0, that return a value below the
\* density: Math.random() < density
LowCalls(runs) ==
    UNION {IF FLt(runs[j].value, RandomizeDensity)
           THEN LET first == RunsLength(SubSeq(runs, 1, j - 1))
                IN  first .. (first + runs[j].count - 1)
           ELSE {} : j \in 1 .. Len(runs)}

\* the cells the loops add: the i-th visit, counted from 0 with the rows
\* outermost, is of row startRow + i \div width and column startCol + i % width,
\* and it is added when its call returns a value below the density
RandomizedCells(b, draws) ==
    LET width == Cardinality(RandomizeCols(b))
        total == Cardinality(RandomizeRows(b)) * width
        period == RunsLength(draws)
        visits == {low + period * k : low \in LowCalls(draws),
                                     k \in 0 .. ((total - 1) \div period)}
    IN  IF total = 0 THEN {}
        ELSE {coordsToString(ToInt(b.startRow) + (i \div width), ToInt(b.startCol) + (i % width)) :
                 i \in visits \cap (0 .. (total - 1))}

SampleOf(lo, hi) == {lo, (lo + hi) \div 2, hi} \cap (lo .. hi)

\* what Math.random() returns below and above the density
LowDraw == Fin(1, 10)
HighDraw == Fin(99, 100)

\* draws that leave the grid empty or add one cell, on the first, the middle
\* or the last visited row and column
SparseDraws(b) ==
    LET width == Cardinality(RandomizeCols(b))
        total == Cardinality(RandomizeRows(b)) * width
    IN  {<<[value |-> HighDraw, count |-> 1]>>} \cup
        (IF total = 0 THEN {}
         ELSE {<<[value |-> HighDraw, count |-> i], [value |-> LowDraw, count |-> 1],
                 [value |-> HighDraw, count |-> total - i - 1]>> :
                 i \in {(r - ToInt(b.startRow)) * width + (c - ToInt(b.startCol)) :
                           r \in SampleOf(ToInt(b.startRow), ToInt(b.endRow) - 1),
                           c \in SampleOf(ToInt(b.startCol), ToInt(b.endCol) - 1)}})

\* draws that fill every visited cell, every second one, every third one
DenseDraws ==
    {<<[value |-> LowDraw, count |-> 1]>>,
     <<[value |-> HighDraw, count |-> 1], [value |-> LowDraw, count |-> 1]>>,
     <<[value |-> LowDraw, count |-> 1], [value |-> HighDraw, count |-> 2]>>}

handleRandomize(draws) ==
    /\ IF isRunning
       THEN /\ Remember("randomizeIgnored")
            /\ UNCHANGED <<liveCells, generation, intervalRef, effectPending>>
       ELSE LET b == RandomizeBounds(viewCenterCoords)
            IN  IF RandomizeTooLarge(b)
                THEN /\ Remember("randomizeRejected")
                     /\ UNCHANGED <<liveCells, generation, intervalRef, effectPending>>
                ELSE /\ \E newCells \in {RandomizedCells(b, draws)} :
                            liveCells' = newCells
                     /\ generation' = 0
                     /\ RenderAfterEffects
                     /\ Remember("randomize")
    /\ UNCHANGED <<isRunning, viewCenterCoords>>

-----------------------------------------------------------------------------
(* handleDraw *)

Clamp(x) == Max(MIN_COORD_VALUE, Min(MAX_COORD_VALUE, x))

\* the updater handleDraw hands to setLiveCells
DrawnCells(currentCells, targetRowInt, targetColInt) ==
    LET coordsStr == coordsToString(Clamp(targetRowInt), Clamp(targetColInt))
    IN  IF coordsStr \in currentCells THEN currentCells
        ELSE currentCells \cup {coordsStr}

handleDraw(targetRowInt, targetColInt) ==
    /\ liveCells' = DrawnCells(liveCells, targetRowInt, targetColInt)
    /\ RenderAfterEffects
    /\ Remember("draw")
    /\ UNCHANGED <<isRunning, generation, viewCenterCoords>>


-----------------------------------------------------------------------------
(* Calls of coordsToString and stringToCoords *)

\* no call has been made
NoCall == [op |-> "none", row |-> 0, col |-> 0, str |-> <<>>, parsed |-> NULL,
           lastRow |-> 0, lastCol |-> 0, lastStr |-> <<>>]

\* stringToCoords(coordsToString(row, col)); the call before it is remembered
RoundTripCall(row, col, last) ==
    LET str == coordsToString(row, col)
    IN  [op |-> "roundTrip", row |-> row, col |-> col, str |-> str,
         parsed |-> stringToCoords(str),
         lastRow |-> last.row, lastCol |-> last.col, lastStr |-> last.str]

\* stringToCoords(str) of any string
ParseCall(str, last) ==
    [op |-> "parse", row |-> 0, col |-> 0, str |-> str, parsed |-> stringToCoords(str),
     lastRow |-> last.row, lastCol |-> last.col, lastStr |-> last.str]

-----------------------------------------------------------------------------
(* The Set objects behind the live cells *)

\* new Set(): a fresh object, not yet handed to setLiveCells
Alloc(h, cells) == Append(h, [cells |-> cells, published |-> FALSE, snapshot |-> {}])

\* the object becomes the liveCells state: its contents at that moment are noted
Publish(h, ref) ==
    IF h[ref].published THEN h
    ELSE [h EXCEPT ![ref] = [cells |-> @.cells, published |-> TRUE, snapshot |-> @.cells]]

\* an updater that always returns the Set calculateNextGeneration filled
StepObjectsAlwaysNew(h, cells, nextLiveCells) ==
    [heap |-> Alloc(h, nextLiveCells), ref |-> Len(h) + 1]

\* the updater of runSimulationStep: calculateNextGeneration has filled a new
\* Set with nextLiveCells, and the updater returns it or the object it was given
StepObjects(h, cells, nextLiveCells) ==
    LET h1 == Alloc(h, nextLiveCells)
        nextCells == Len(h) + 1
        same == /\ Cardinality(nextLiveCells) = Cardinality(h[cells].cells)
                /\ \A cell \in h[cells].cells : cell \in nextLiveCells
                /\ \A cell \in nextLiveCells : cell \in h[cells].cells
    IN  [heap |-> h1, ref |-> IF same THEN cells ELSE nextCells]

\* an updater that adds the cell to the Set it was given
DrawObjectsInPlace(h, currentCells, coordsStr) ==
    [heap |-> [h EXCEPT ![currentCells].cells = @ \cup {coordsStr}], ref |-> currentCells]

\* the updater of handleDraw: the same object if the cell is live, else a copy
\* of it with the cell added
DrawObjects(h, currentCells, coordsStr) ==
    IF coordsStr \in h[currentCells].cells THEN [heap |-> h, ref |-> currentCells]
    ELSE LET h1 == Alloc(h, h[currentCells].cells)
             newCells == Len(h1)
         IN  [heap |-> [h1 EXCEPT ![newCells].cells = @ \cup {coordsStr}],
              ref |-> newCells]

\* createEmptyGrid() filled by the caller before it is handed to setLiveCells
FilledObjects(h, cells) ==
    LET h1 == Alloc(h, createEmptyGrid)
        newCells == Len(h1)
    IN  [heap |-> [h1 EXCEPT ![newCells].cells = @ \cup cells], ref |-> newCells]

\* useState(() => ...): the first object is the state from the first render,
\* and the renderer's ref starts on it
InitHeap(cells) ==
    /\ heap = Publish(Alloc(<<>>, cells), 1)
    /\ liveRef = 1
    /\ liveCellsRef = 1
    /\ prevRef = 1

-----------------------------------------------------------------------------
(* The application: GameScreen from its first render *)

history == <<initCells, seed, opCount>>

viewVars == <<cellSizeDP, gridContainerMeasurements, panGestureContext,
              pinchStartContext, contacts, begun, stroke, lastActivatedCellCoords,
              sentCells, lastDrawExecutionTimeRef, lastEvent, prevView, viewOps>>

heapVars == <<heap, liveRef, liveCellsRef, prevRef>>

queueVars == <<inFlight, pendingUpdates, expected>>

frameVars == <<frame, viewHistory, codec, queueVars, loop>>

NoEvent ==
    [translationX |-> IntNum(0), translationY |-> IntNum(0), scale |-> IntNum(1),
     focalX |-> IntNum(0), focalY |-> IntNum(0),
     absoluteX |-> IntNum(0), absoluteY |-> IntNum(0), now |-> 0]

\* the first render of GameScreen: nothing measured, no finger on the grid
InitView ==
    /\ cellSizeDP = IntNum(INITIAL_CELL_SIZE_DP)
    /\ gridContainerMeasurements =
           [x |-> IntNum(0), y |-> IntNum(0), width |-> IntNum(0),
            height |-> IntNum(0), measured |-> FALSE]
    /\ panGestureContext = [startRow |-> IntNum(0), startCol |-> IntNum(0)]
    /\ pinchStartContext =
           [startCellSize |-> IntNum(0),
            startViewCenter |-> [row |-> IntNum(0), col |-> IntNum(0)]]
    /\ contacts = 0
    /\ begun = {}
    /\ stroke = {}
    /\ lastActivatedCellCoords = NULL
    /\ sentCells = <<>>
    /\ lastDrawExecutionTimeRef = 0
    /\ lastEvent = NoEvent
    /\ prevView = [center |-> [row |-> IntNum(0), col |-> IntNum(0)],
                   cellSize |-> IntNum(INITIAL_CELL_SIZE_DP)]
    /\ viewOps = 0

\* no frame has been drawn and no gesture has moved the viewport
InitFrame ==
    /\ frame = [pc |-> "idle", centerRow |-> IntNum(0), centerCol |-> IntNum(0),
                cellSize |-> IntNum(INITIAL_CELL_SIZE_DP)]
    /\ viewHistory = {}

-----------------------------------------------------------------------------
(* The render loop of MainGridView *)

\* frameRequestHandle.current === null
NoHandle == -1

\* the refs of the component as it mounts: no GL context, no frame requested.
\* stopped, drawn, skipped and drawnAfterStop are history: whether
\* stopRenderLoop was called since the last call of startRenderLoop, how many
\* frames were drawn, how many were skipped, and whether a frame was
\* presented in between
InitLoop ==
    [handle |-> NoHandle, pending |-> {}, nextId |-> 1, gl |-> FALSE,
     initialized |-> FALSE, resources |-> FALSE, appState |-> "active",
     stopped |-> FALSE, drawn |-> 0, skipped |-> 0, drawnAfterStop |-> FALSE]

AppStates == {"active", "inactive", "background"}

\* requestAnimationFrame(renderLoop), its handle stored in frameRequestHandle
requestAnimationFrame(l) ==
    [l EXCEPT !.pending = @ \cup {l.nextId}, !.handle = l.nextId, !.nextId = @ + 1]

stopRenderLoop(l) ==
    IF l.handle # NoHandle
    THEN [l EXCEPT !.pending = @ \ {l.handle}, !.handle = NoHandle, !.stopped = TRUE]
    ELSE [l EXCEPT !.stopped = TRUE]

\* a start that requests a frame whether or not one is scheduled
StartsAlways(handle) == TRUE

\* if (frameRequestHandle.current === null)
StartsWhen(handle) == handle = NoHandle

startRenderLoop(l) ==
    LET called == [l EXCEPT !.stopped = FALSE]
    IN  IF ~l.initialized THEN called
        ELSE IF StartsWhen(l.handle) THEN requestAnimationFrame(called)
        ELSE called

\* what a frame callback can meet in drawGrid: the grid is drawn; the frame is
\* skipped (the canvas has no size yet, or a GL call reports an error) and
\* drawGrid returns without stopping the loop; drawGrid finds an invalid cell
\* size or a missing resource, or catches an exception, and stops the loop;
\* or flush / endFrameEXP throws and renderLoop stops the loop
FrameOutcomes == {"drawn", "skipped", "invalid", "threw"}

\* renderLoop, the callback of a requested frame: after drawGrid, flush and
\* endFrameEXP the next frame is requested unless the loop was stopped
renderLoop(l, outcome) ==
    IF ~l.gl \/ ~l.initialized \/ ~l.resources THEN stopRenderLoop(l)
    ELSE IF outcome = "invalid" THEN stopRenderLoop(l)
    ELSE IF outcome = "threw" THEN stopRenderLoop(l)
    ELSE LET frameDrawn == IF outcome = "drawn"
                           THEN [l EXCEPT !.drawn = @ + 1,
                                          !.drawnAfterStop = @ \/ l.stopped]
                           ELSE [l EXCEPT !.skipped = @ + 1,
                                          !.drawnAfterStop = @ \/ l.stopped]
         IN  IF frameDrawn.handle # NoHandle THEN requestAnimationFrame(frameDrawn)
             ELSE frameDrawn

\* onContextCreate: the setup of the program and the buffer succeeds or throws
onContextCreate(l, ok) ==
    LET cleared == [stopRenderLoop(l) EXCEPT !.gl = TRUE, !.initialized = FALSE,
                                             !.resources = FALSE]
    IN  IF ok THEN startRenderLoop([cleared EXCEPT !.resources = TRUE, !.initialized = TRUE])
        ELSE [cleared EXCEPT !.gl = FALSE]

handleAppStateChange(l, nextAppState) ==
    LET after ==
            IF l.appState = "active" /\ nextAppState \in {"inactive", "background"}
            THEN stopRenderLoop(l)
            ELSE IF l.appState \in {"inactive", "background"} /\ nextAppState = "active"
            THEN IF l.initialized /\ l.gl THEN startRenderLoop(l) ELSE l
            ELSE l
    IN  [after EXCEPT !.appState = nextAppState]

\* the effect that subscribes to AppState: its check as the component mounts
MountCheck(l) ==
    IF l.appState = "active" /\ l.initialized THEN startRenderLoop(l) ELSE l

\* the cleanup of that effect
EffectCleanup(l) ==
    [stopRenderLoop(l) EXCEPT !.resources = FALSE, !.initialized = FALSE, !.gl = FALSE]

loopRest == <<liveCells, lastOp, prevCells, prevGeneration, viewCenterCoords, seed,
              isRunning, generation, intervalRef, effectPending, initCells, opCount,
              heapVars, viewVars, frame, viewHistory, codec, queueVars>>

ContextCreate ==
    /\ loop.nextId <= MaxFrames
    /\ \E ok \in BOOLEAN : loop' = onContextCreate(loop, ok)
    /\ UNCHANGED loopRest

AppStateChange ==
    /\ loop.nextId <= MaxFrames
    /\ \E nextAppState \in AppStates : loop' = handleAppStateChange(loop, nextAppState)
    /\ UNCHANGED loopRest

\* a requested frame comes due
FrameCallback ==
    /\ loop.nextId <= MaxFrames
    /\ \E h \in loop.pending, outcome \in FrameOutcomes :
           loop' = renderLoop([loop EXCEPT !.pending = @ \ {h}], outcome)
    /\ UNCHANGED loopRest

Mount ==
    /\ loop.nextId <= MaxFrames
    /\ loop' = MountCheck(loop)
    /\ UNCHANGED loopRest

Unmount ==
    /\ loop' = EffectCleanup(loop)
    /\ UNCHANGED loopRest

NextLoop == ContextCreate \/ AppStateChange \/ FrameCallback \/ Mount \/ Unmount

-----------------------------------------------------------------------------
(* Gestures: two-finger pan and pinch (worklets of the UI thread) *)

PAN_SENSITIVITY == Fin(3, 2)

\* Math.max(MIN_COORD_VALUE, Math.min(MAX_COORD_VALUE, x))
ClampCoord(x) == MathMax(IntNum(MIN_COORD_VALUE), MathMin(IntNum(MAX_COORD_VALUE), x))

\* a clamp that forgets the lower limit
ClampCellSizeAboveOnly(x) == MathMin(IntNum(MAX_CELL_SIZE_DP), x)

\* Math.max(MIN_CELL_SIZE_DP, Math.min(MAX_CELL_SIZE_DP, x))
ClampCellSize(x) == MathMax(IntNum(MIN_CELL_SIZE_DP), MathMin(IntNum(MAX_CELL_SIZE_DP), x))

\* the negation of (size <= 0 || !isFinite(size))
ValidCellSize(size) == ~(FLe(size, IntNum(0)) \/ ~isFinite(size))

\* !measured || containerWidthDP <= 0 || containerHeightDP <= 0
ContainerInvalid(m) ==
    ~m.measured \/ FLe(m.width, IntNum(0)) \/ FLe(m.height, IntNum(0))

CurrentView == [center |-> viewCenterCoords, cellSize |-> cellSizeDP]

\* drawPanGesture is Gesture.Pan().minPointers(1).maxPointers(1), viewPanGesture
\* is Gesture.Pan().minPointers(2).maxPointers(2); pinchGesture is
\* Gesture.Pinch(), the gesture of two fingers
minPointers(gesture) == IF gesture = "draw" THEN 1 ELSE 2

maxPointers(gesture) == IF gesture = "draw" THEN 1 ELSE 2

\* the gesture takes part while the fingers on the grid are as many as it asks for
PointersFit(gesture, pointers) ==
    minPointers(gesture) <= pointers /\ pointers <= maxPointers(gesture)

\* the composed gesture: a gesture begins once the fingers fit it. The
\* one-finger and the two-finger gestures of Gesture.Exclusive never fit
\* together; the two of Gesture.Simultaneous do.
GestureMayBegin(gesture) == gesture \notin begun /\ PointersFit(gesture, contacts)

\* the gestures that end when the fingers on the grid become `pointers`
EndedBy(pointers) == {gesture \in begun : ~PointersFit(gesture, pointers)}

\* what the updates of the stroke have done, after one that `acted`
StrokeAfter(kind, acted) == IF acted THEN stroke \cup {kind} ELSE stroke

RememberView(op, event) ==
    /\ lastOp' = op
    /\ lastEvent' = event
    /\ prevView' = CurrentView
    /\ viewHistory' = viewHistory \cup {CurrentView}
    /\ prevCells' = liveCells
    /\ prevGeneration' = generation
    /\ viewOps' = viewOps + 1

\* a pan that drops the sensitivity factor
PanDeltaNoSensitivity(translation, currentCellSize) == FDiv(translation, currentCellSize)

\* (event.translationX / currentCellSize) * PAN_SENSITIVITY
PanDelta(translation, currentCellSize) ==
    FMul(FDiv(translation, currentCellSize), PAN_SENSITIVITY)

\* a pan that moves the center from where it is now instead of from where
\* the pan began
PanUpdateFromCurrent(event, context, currentCellSize, center) ==
    IF ~ValidCellSize(currentCellSize) THEN center
    ELSE LET clampedCol == ClampCoord(FSub(center.col, PanDelta(event.translationX, currentCellSize)))
             clampedRow == ClampCoord(FSub(center.row, PanDelta(event.translationY, currentCellSize)))
         IN  IF ~isFinite(clampedRow) \/ ~isFinite(clampedCol) THEN center
             ELSE [row |-> clampedRow, col |-> clampedCol]

\* viewPanGesture.onUpdate: the center it leaves in viewCenterCoords
PanUpdateCenter(event, context, currentCellSize, center) ==
    IF ~ValidCellSize(currentCellSize) THEN center
    ELSE LET deltaCol == PanDelta(event.translationX, currentCellSize)
             deltaRow == PanDelta(event.translationY, currentCellSize)
             newCol == FSub(context.startCol, deltaCol)
             newRow == FSub(context.startRow, deltaRow)
             clampedCol == ClampCoord(newCol)
             clampedRow == ClampCoord(newRow)
         IN  IF ~isFinite(clampedRow) \/ ~isFinite(clampedCol) THEN center
             ELSE [row |-> clampedRow, col |-> clampedCol]

viewPanGestureOnBegin ==
    /\ panGestureContext' =
           [startRow |-> viewCenterCoords.row, startCol |-> viewCenterCoords.col]
    /\ GestureMayBegin("pan")
    /\ begun' = begun \cup {"pan"}
    /\ UNCHANGED <<viewCenterCoords, cellSizeDP, pinchStartContext, contacts, stroke,
                   gridContainerMeasurements, lastActivatedCellCoords, sentCells,
                   lastDrawExecutionTimeRef, lastEvent, prevView, viewOps, viewHistory>>
    /\ lastOp' = "panBegin"

viewPanGestureOnUpdate(event) ==
    /\ "pan" \in begun
    /\ viewCenterCoords' =
           PanUpdateCenter(event, panGestureContext, cellSizeDP, viewCenterCoords)
    /\ RememberView("panUpdate", event)
    /\ stroke' = StrokeAfter("view", viewCenterCoords' # viewCenterCoords)
    /\ UNCHANGED <<cellSizeDP, panGestureContext, pinchStartContext, contacts, begun,
                   gridContainerMeasurements, lastActivatedCellCoords, sentCells,
                   lastDrawExecutionTimeRef>>

\* a zoom that keeps the screen offset of the focal point of the old cell size
FocalOffsetAtStartSize(tapRelCenter_DP, startSize, newClampedCellSize) ==
    FDiv(tapRelCenter_DP, startSize)

\* tapRelCenter_DP / newClampedCellSize: the offset based on the new cell size
FocalOffsetNew(tapRelCenter_DP, startSize, newClampedCellSize) ==
    FDiv(tapRelCenter_DP, newClampedCellSize)

\* pinchGesture.onUpdate: the center and cell size it leaves in the shared values
PinchUpdateView(event, context, m, view) ==
    LET startSize == context.startCellSize
        targetSize == FMul(startSize, event.scale)
        newClampedCellSize == ClampCellSize(targetSize)
    IN  IF ContainerInvalid(m)
        THEN IF ~ValidCellSize(startSize) THEN view
             ELSE IF isFinite(newClampedCellSize) /\ FLt(IntNum(0), newClampedCellSize)
                  THEN [view EXCEPT !.cellSize = newClampedCellSize]
                  ELSE view
        ELSE IF ~ValidCellSize(startSize) THEN view
        ELSE IF ~isFinite(newClampedCellSize) \/ FLe(newClampedCellSize, IntNum(0)) THEN view
        ELSE
          LET containerCenterX_DP == FAdd(m.x, FDiv(m.width, IntNum(2)))
              containerCenterY_DP == FAdd(m.y, FDiv(m.height, IntNum(2)))
              tapRelCenterX_DP == FSub(event.focalX, containerCenterX_DP)
              tapRelCenterY_DP == FSub(event.focalY, containerCenterY_DP)
              focalLogicalCol ==
                  FAdd(context.startViewCenter.col, FDiv(tapRelCenterX_DP, startSize))
              focalLogicalRow ==
                  FAdd(context.startViewCenter.row, FDiv(tapRelCenterY_DP, startSize))
              colOffsetNew == FocalOffsetNew(tapRelCenterX_DP, startSize, newClampedCellSize)
              rowOffsetNew == FocalOffsetNew(tapRelCenterY_DP, startSize, newClampedCellSize)
              clampedNewCenterCol == ClampCoord(FSub(focalLogicalCol, colOffsetNew))
              clampedNewCenterRow == ClampCoord(FSub(focalLogicalRow, rowOffsetNew))
          IN  IF ~isFinite(focalLogicalCol) \/ ~isFinite(focalLogicalRow) THEN view
              ELSE IF ~isFinite(clampedNewCenterRow) \/ ~isFinite(clampedNewCenterCol)
                   THEN view
              ELSE [center |-> [row |-> clampedNewCenterRow, col |-> clampedNewCenterCol],
                    cellSize |-> newClampedCellSize]

pinchGestureOnBegin ==
    /\ pinchStartContext' =
           [startCellSize |-> cellSizeDP,
            startViewCenter |-> [row |-> viewCenterCoords.row, col |-> viewCenterCoords.col]]
    /\ GestureMayBegin("pinch")
    /\ begun' = begun \cup {"pinch"}
    /\ UNCHANGED <<viewCenterCoords, cellSizeDP, panGestureContext, contacts, stroke,
                   gridContainerMeasurements, lastActivatedCellCoords, sentCells,
                   lastDrawExecutionTimeRef, lastEvent, prevView, viewOps, viewHistory>>
    /\ lastOp' = "pinchBegin"

pinchGestureOnUpdate(event) ==
    /\ "pinch" \in begun
    /\ LET view == PinchUpdateView(event, pinchStartContext,
                                   gridContainerMeasurements, CurrentView)
       IN  /\ cellSizeDP' = view.cellSize
           /\ viewCenterCoords' = view.center
    /\ RememberView("pinchUpdate", event)
    /\ stroke' = StrokeAfter("view", viewCenterCoords' # viewCenterCoords
                                      \/ cellSizeDP' # cellSizeDP)
    /\ UNCHANGED <<panGestureContext, pinchStartContext, contacts, begun,
                   gridContainerMeasurements, lastActivatedCellCoords, sentCells,
                   lastDrawExecutionTimeRef>>

-----------------------------------------------------------------------------
(* Container measurement *)

\* the undefined a measure callback gets for a page position the native side
\* does not report: it stands where a number stands, and equals no number
Undefined == [t |-> "undefined", s |-> 1, m |-> <<0, 0, 0, 0>>, e |-> 0]

\* value ?? fallback
Coalesce(value, fallback) == IF value = Undefined THEN fallback ELSE value

\* x !== y for two numbers: NaN differs from every number, itself included
StrictNotEqual(x, y) == x.t = "nan" \/ y.t = "nan" \/ x # y

\* what measure() reports for the grid container: a laid-out container, one
\* of zero size, and a laid-out one whose pageX is not reported
Layouts ==
    {[width |-> IntNum(400), height |-> IntNum(600), pageX |-> IntNum(0), pageY |-> IntNum(100)],
     [width |-> IntNum(0), height |-> IntNum(0), pageX |-> IntNum(0), pageY |-> IntNum(100)],
     [width |-> IntNum(400), height |-> IntNum(600), pageX |-> Undefined, pageY |-> IntNum(100)]}

\* the callback of gridContainerRef.current.measure in measureGridContainer
measureGridContainer(layout) ==
    /\ gridContainerMeasurements' =
           LET prev == gridContainerMeasurements
           IN  IF /\ FLt(IntNum(0), layout.width) /\ FLt(IntNum(0), layout.height)
                  /\ layout.pageX # Undefined /\ layout.pageY # Undefined
               THEN IF \/ ~prev.measured
                       \/ StrictNotEqual(prev.width, layout.width)
                       \/ StrictNotEqual(prev.height, layout.height)
                       \/ StrictNotEqual(prev.x, layout.pageX)
                       \/ StrictNotEqual(prev.y, layout.pageY)
                    THEN [x |-> layout.pageX, y |-> layout.pageY, width |-> layout.width,
                          height |-> layout.height, measured |-> TRUE]
                    ELSE prev
               ELSE [x |-> Coalesce(layout.pageX, prev.x), y |-> Coalesce(layout.pageY, prev.y),
                     width |-> layout.width, height |-> layout.height, measured |-> FALSE]
    /\ UNCHANGED <<viewCenterCoords, cellSizeDP, panGestureContext, pinchStartContext,
                   contacts, begun, stroke, lastActivatedCellCoords, sentCells,
                   lastDrawExecutionTimeRef, lastEvent, prevView, viewOps, viewHistory>>
    /\ lastOp' = "layout"

\* handleDimensionChange, the listener of the Dimensions "change" event:
\* setGridContainerMeasurements(m => ({...m, measured: false}))
handleDimensionChange ==
    /\ gridContainerMeasurements' = [gridContainerMeasurements EXCEPT !.measured = FALSE]
    /\ UNCHANGED <<viewCenterCoords, cellSizeDP, panGestureContext, pinchStartContext,
                   contacts, begun, stroke, lastActivatedCellCoords, sentCells,
                   lastDrawExecutionTimeRef, lastEvent, prevView, viewOps, viewHistory>>
    /\ lastOp' = "dimensionChange"

-----------------------------------------------------------------------------
(* The renderer's placement of a cell (drawGrid) *)

\* cellSizePixel = currentCellSizeDP * pRatio
CellSizePixel(currentCellSizeDP) == FMul(currentCellSizeDP, IntNum(PixelRatio))

\* gl.drawingBufferWidth / Height: the GLView fills the measured container
CanvasSize(containerSizeDP) == FMul(containerSizeDP, IntNum(PixelRatio))

\* Math.round(cellPaddingDP * pRatio), cellPaddingDP = currentCellSizeDP > 3 ? 1 : 0
CellPaddingPixel(currentCellSizeDP) ==
    IF FLt(IntNum(3), currentCellSizeDP) THEN IntNum(PixelRatio) ELSE IntNum(0)

\* screenX = canvasWidth / 2 + (col - centerCol) * cellSizePixel (and screenY)
CellScreenPos(cellComponent, centerComponent, cellSizePixel, canvasSize) ==
    FAdd(FDiv(canvasSize, IntNum(2)),
         FMul(FSub(IntNum(cellComponent), centerComponent), cellSizePixel))

\* cellsWidthVisible, minVisibleCol and maxVisibleCol (and the same of the rows)
VisibleRange(centerComponent, cellSizePixel, canvasSize) ==
    The({[cellsVisible |-> cellsVisible,
          minVisible |-> Floor(FSub(FSub(centerComponent, FDiv(cellsVisible, IntNum(2))),
                                    IntNum(1))),
          maxVisible |-> Ceil(FAdd(FAdd(centerComponent, FDiv(cellsVisible, IntNum(2))),
                                   IntNum(1)))] :
            cellsVisible \in {FDiv(canvasSize, cellSizePixel)}})

\* the cell is within the visible range, and its box meets the canvas:
\* culling 1 on the one axis, and the negation of culling 2
InVisibleRange(cellComponent, range) ==
    /\ FLe(range.minVisible, IntNum(cellComponent))
    /\ FLe(IntNum(cellComponent), range.maxVisible)
BoxOffCanvas(screenPos, cellSizePixel, canvasSize) ==
    FLt(FAdd(screenPos, cellSizePixel), IntNum(0)) \/ FLt(canvasSize, screenPos)

\* no quad: drawArrays is not called for the cell
NoQuad == [drawn |-> FALSE, x |-> Zero, y |-> Zero, size |-> Zero]

\* the translation and the dimension of the quad drawGrid draws for the cell
\* on one axis, or NoQuad when the frame or the cell is skipped
AxisQuad(cellComponent, centerComponent, cellSizePixel, cellPaddingPixel, canvasSize) ==
    The({IF \/ FLe(canvasSize, IntNum(0))
            \/ ~isFinite(range.cellsVisible)
            \/ ~isFinite(range.minVisible) \/ ~isFinite(range.maxVisible)
            \/ ~InVisibleRange(cellComponent, range)
            \/ BoxOffCanvas(screenPos, cellSizePixel, canvasSize)
            \/ ~isFinite(screenPos)
         THEN NoQuad
         ELSE [drawn |-> TRUE, x |-> FAdd(screenPos, FDiv(cellPaddingPixel, IntNum(2))),
               y |-> Zero, size |-> Zero] :
            range \in {VisibleRange(centerComponent, cellSizePixel, canvasSize)},
            screenPos \in {CellScreenPos(cellComponent, centerComponent, cellSizePixel,
                                         canvasSize)}})

\* the quad drawGrid draws for a live cell: MainGridView is rendered once the
\* container is measured, a frame is drawn for a valid cell size and canvas,
\* and a cell gets its quad when it is not culled
DrawnQuad(cell, center, currentCellSizeDP, m) ==
    The({IF \/ ~m.measured
            \/ FLe(cellSizePixel, IntNum(0)) \/ ~isFinite(cellSizePixel)
            \/ FLe(cellDrawSizePixel, IntNum(0))
         THEN NoQuad
         ELSE The({IF horizontal.drawn /\ vertical.drawn
                   THEN [drawn |-> TRUE, x |-> horizontal.x, y |-> vertical.x,
                         size |-> cellDrawSizePixel]
                   ELSE NoQuad :
                      horizontal \in {AxisQuad(cell.col, center.col, cellSizePixel,
                                               CellPaddingPixel(currentCellSizeDP),
                                               CanvasSize(m.width))},
                      vertical \in {AxisQuad(cell.row, center.row, cellSizePixel,
                                             CellPaddingPixel(currentCellSizeDP),
                                             CanvasSize(m.height))}}) :
            cellSizePixel \in {CellSizePixel(currentCellSizeDP)},
            cellDrawSizePixel \in {MathMax(IntNum(0),
                                           FSub(CellSizePixel(currentCellSizeDP),
                                                CellPaddingPixel(currentCellSizeDP)))}})

\* the vertex shader: pixelPosition = (a_position * u_dimensions) + u_translation,
\* for the point frac of the way across the quad on one axis
DrawnQuadPoint(translation, dimension, frac) == FAdd(FMul(frac, dimension), translation)

\* the window coordinate, in DPs, of a pixel of the canvas
PixelToWindowDP(pixel, containerOrigin) == FAdd(containerOrigin, FDiv(pixel, IntNum(PixelRatio)))

\* the cells a paint stroke of the model resolves to
DrawTargets == {<<1, 1>>, <<3, 1>>}

InitApp(cells) ==
    /\ liveCells = cells
    /\ isRunning = FALSE
    /\ generation = 0
    /\ intervalRef = FALSE
    /\ effectPending = FALSE
    /\ viewCenterCoords = [row |-> IntNum(0), col |-> IntNum(0)]
    /\ lastOp = "init"
    /\ prevCells = cells
    /\ prevGeneration = 0
    /\ initCells = cells
    /\ opCount = 0
    /\ InitView
    /\ InitHeap(cells)
    /\ InitFrame
    /\ codec = NoCall
    /\ inFlight = <<>>
    /\ pendingUpdates = <<>>
    /\ expected = cells
    /\ loop = InitLoop

\* the initial value of useState<GridState>
InitialLiveCells ==
    {coordsToString(0, 1), coordsToString(1, 2), coordsToString(2, 0),
     coordsToString(2, 1), coordsToString(2, 2)}

Init ==
    /\ InitApp(InitialLiveCells)
    /\ seed = NoSeed

ToggleRun == handleToggleRun /\ UNCHANGED <<history, viewVars, heapVars, frameVars>>
LoopEffect == SimulationLoopEffect /\ UNCHANGED <<history, viewVars, heapVars, frameVars>>
Tick == TimerTick /\ UNCHANGED <<history, viewVars, heapVars, frameVars>>
Step == handleStep /\ UNCHANGED <<history, viewVars, heapVars, frameVars>>
Clear == handleClear /\ UNCHANGED <<history, viewVars, heapVars, frameVars>>
Randomize ==
    /\ \E draws \in SparseDraws(RandomizeBounds(viewCenterCoords)) : handleRandomize(draws)
    /\ UNCHANGED <<history, viewVars, heapVars, frameVars>>
Draw == \E t \in DrawTargets : handleDraw(t[1], t[2]) /\ UNCHANGED <<history, viewVars, heapVars, frameVars>>

Next == ToggleRun \/ LoopEffect \/ Tick \/ Step \/ Clear \/ Randomize \/ Draw

Spec == Init /\ [][Next]_vars

-----------------------------------------------------------------------------
(* One-finger drag gesture (painting) *)

\* a mapping that measures the touch from the container's corner
TouchToLogicalFromCorner(screen_DP, containerOrigin, containerSizeDP, centerComponent, currentCellSize) ==
    FAdd(centerComponent, FDiv(FSub(screen_DP, containerOrigin), currentCellSize))

\* center + (screen_DP - (container + containerSizeDP / 2)) / currentCellSize
TouchToLogical(screen_DP, containerOrigin, containerSizeDP, centerComponent, currentCellSize) ==
    LET containerCenter_DP == FAdd(containerOrigin, FDiv(containerSizeDP, IntNum(2)))
        tapRelCenter_DP == FSub(screen_DP, containerCenter_DP)
    IN  FAdd(centerComponent, FDiv(tapRelCenter_DP, currentCellSize))

drawPanGestureOnBegin ==
    /\ lastActivatedCellCoords' = NULL
    /\ sentCells' = <<>>
    /\ lastDrawExecutionTimeRef' = 0
    /\ GestureMayBegin("draw")
    /\ begun' = begun \cup {"draw"}
    /\ UNCHANGED <<viewCenterCoords, cellSizeDP, panGestureContext, pinchStartContext,
                   contacts, stroke,
                   gridContainerMeasurements, lastEvent, prevView, viewOps, viewHistory>>
    /\ lastOp' = "drawBegin"

\* drawPanGesture.onEnd, when the gesture is one of those that end; the onEnd
\* of viewPanGesture and of pinchGesture write nothing
drawPanGestureOnEnd(ended) ==
    lastActivatedCellCoords' =
        IF "draw" \in ended THEN NULL ELSE lastActivatedCellCoords

\* a finger lands on the grid or leaves it: the gestures the fingers no longer
\* fit end, and the stroke is over when the last finger has left
TouchesChange(pointers) ==
    /\ contacts' = pointers
    /\ begun' = begun \ EndedBy(pointers)
    /\ drawPanGestureOnEnd(EndedBy(pointers))
    /\ stroke' = IF pointers = 0 THEN {} ELSE stroke
    /\ UNCHANGED <<viewCenterCoords, cellSizeDP, panGestureContext, pinchStartContext,
                   gridContainerMeasurements, lastEvent, prevView, viewOps, viewHistory,
                   sentCells, lastDrawExecutionTimeRef>>

\* the worklet returns without a call of handleDraw
DrawSkipped(op) ==
    /\ Remember(op)
    /\ UNCHANGED inFlight

\* drawPanGesture.onUpdate, a worklet of the UI thread: it writes its refs and
\* hands the call of handleDraw to the JavaScript thread with runOnJS
drawPanGestureOnUpdate(event) ==
    LET m == gridContainerMeasurements
    IN  /\ "draw" \in begun
        /\ event.now >= lastDrawExecutionTimeRef
        /\ lastEvent' = event
        /\ prevView' = CurrentView
        /\ viewOps' = viewOps + 1
        /\ UNCHANGED viewHistory
        /\ IF ContainerInvalid(m)
           THEN /\ DrawSkipped("drawIgnored")
                /\ UNCHANGED <<lastActivatedCellCoords, sentCells, lastDrawExecutionTimeRef>>
           ELSE IF event.now - lastDrawExecutionTimeRef < DRAW_THROTTLE_MS
           THEN /\ DrawSkipped("drawThrottled")
                /\ UNCHANGED <<lastActivatedCellCoords, sentCells, lastDrawExecutionTimeRef>>
           ELSE /\ lastDrawExecutionTimeRef' = event.now
                /\ \E targetColInt \in {Floor(TouchToLogical(event.absoluteX, m.x, m.width,
                                                  viewCenterCoords.col, cellSizeDP))},
                      targetRowInt \in {Floor(TouchToLogical(event.absoluteY, m.y, m.height,
                                                  viewCenterCoords.row, cellSizeDP))} :
                     IF ~ValidCellSize(cellSizeDP)
                        \/ ~isFinite(targetRowInt) \/ ~isFinite(targetColInt)
                     THEN /\ DrawSkipped("drawInvalid")
                          /\ UNCHANGED <<lastActivatedCellCoords, sentCells>>
                     ELSE \E currentCellCoords \in
                                 {[row |-> ToInt(ClampCoord(targetRowInt)),
                                   col |-> ToInt(ClampCoord(targetColInt))]} :
                              IF lastActivatedCellCoords # currentCellCoords
                              THEN /\ lastActivatedCellCoords' = currentCellCoords
                                   /\ sentCells' = Append(sentCells, currentCellCoords)
                                   /\ inFlight' = Append(inFlight, currentCellCoords)
                                   /\ Remember("draw")
                              ELSE /\ DrawSkipped("drawSameCell")
                                   /\ UNCHANGED <<lastActivatedCellCoords, sentCells>>
        /\ stroke' = StrokeAfter("paint", sentCells' # sentCells)
        /\ UNCHANGED <<liveCells, viewCenterCoords, cellSizeDP, panGestureContext,
                       pinchStartContext, contacts, begun, gridContainerMeasurements>>

-----------------------------------------------------------------------------
(* handleDraw on the JavaScript thread and the render that applies its updater *)

\* an updater that works on the live set its handler saw when it ran
ApplyToCaptured(update, cells) ==
    IF update.kind = "draw" THEN DrawnCells(update.captured, update.row, update.col)
    ELSE NextLiveCells(update.captured)

\* setLiveCells(cells => ...): the updater is called with the state the
\* updates queued before it have left
ApplyUpdater(update, cells) ==
    IF update.kind = "draw" THEN DrawnCells(cells, update.row, update.col)
    ELSE NextLiveCells(cells)

\* the queued updaters applied oldest first
RECURSIVE ApplyUpdates(_, _)
ApplyUpdates(updates, cells) ==
    IF updates = <<>> THEN cells
    ELSE The({ApplyUpdates(Tail(updates), next) :
                 next \in {ApplyUpdater(Head(updates), cells)}})

\* the setGeneration(p => p + 1) updaters queued with the steps
StepsIn(updates) == Cardinality({i \in 1 .. Len(updates) : updates[i].kind = "step"})

queueRest == <<viewCenterCoords, seed, initCells, viewVars, heapVars, frame,
               viewHistory, codec, loop>>

\* the JavaScript thread runs the oldest call: handleDraw queues its updater
RunPaint ==
    /\ inFlight # <<>>
    /\ LET request == Head(inFlight)
       IN  /\ pendingUpdates' = Append(pendingUpdates,
                   [kind |-> "draw", row |-> request.row, col |-> request.col,
                    captured |-> liveCells])
           /\ expected' = DrawnCells(expected, request.row, request.col)
    /\ inFlight' = Tail(inFlight)
    /\ lastOp' = "runPaint"
    /\ UNCHANGED <<appVars, prevCells, prevGeneration, opCount, queueRest>>

\* React renders: a pending run of the loop effect comes first, then the
\* queued updaters are applied in order and the result becomes the state
Commit ==
    /\ pendingUpdates # <<>>
    /\ liveCells' = ApplyUpdates(pendingUpdates, liveCells)
    /\ generation' = generation + StepsIn(pendingUpdates)
    /\ pendingUpdates' = <<>>
    /\ RenderAfterEffects
    /\ Remember("commit")
    /\ UNCHANGED <<isRunning, inFlight, expected, opCount, queueRest>>

-----------------------------------------------------------------------------
(* The viewport under gestures: layouts, pans, pinches and paint strokes *)

simVars == <<isRunning, generation, intervalRef, effectPending, initCells, opCount,
             heapVars, codec, queueVars, loop>>
cellVars == <<liveCells, prevCells, prevGeneration>>
\* what a paint update of the UI thread leaves alone on the JavaScript thread
drawRest == <<isRunning, generation, intervalRef, effectPending, initCells, opCount,
              heapVars, codec, pendingUpdates, expected, loop>>

PanEvents ==
    {[NoEvent EXCEPT !.translationX = p[1], !.translationY = p[2]] : p \in
        {<<IntNum(25), IntNum(-50)>>, <<IntNum(-10), IntNum(0)>>,
         <<IntNum(100000000), IntNum(-100000000)>>, <<FNaN, IntNum(25)>>,
         <<PosInf, IntNum(0)>>, <<IntNum(25), NegInf>>}}

PinchEvents ==
    {[NoEvent EXCEPT !.scale = p[1], !.focalX = p[2], !.focalY = p[3]] : p \in
        {<<IntNum(2), IntNum(260), IntNum(370)>>,
         <<Fin(1, 2), IntNum(140), IntNum(430)>>,
         <<IntNum(8), IntNum(140), IntNum(430)>>,
         <<Fin(1, 10), IntNum(260), IntNum(370)>>,
         <<FNaN, IntNum(260), IntNum(370)>>,
         <<PosInf, IntNum(260), IntNum(370)>>,
         <<IntNum(2), FNaN, IntNum(370)>>,
         <<IntNum(2), IntNum(260), PosInf>>}}

\* the cells a stroke aims at: the one under the view center and one beside it
AimedCells ==
    {c \in {[row |-> ToInt(Floor(viewCenterCoords.row)) + d[1],
             col |-> ToInt(Floor(viewCenterCoords.col)) + d[2]] : d \in {<<0, 0>>, <<-1, 3>>}} :
        /\ c.row \in MIN_COORD_VALUE .. MAX_COORD_VALUE
        /\ c.col \in MIN_COORD_VALUE .. MAX_COORD_VALUE}

AimFractions == {Fin(1, 8), Fin(7, 8)}

\* a touch on the pixel frac of the way across a quad the renderer has drawn
TouchOnCell(quad, frac, now) ==
    LET m == gridContainerMeasurements
    IN  [NoEvent EXCEPT
            !.absoluteX = PixelToWindowDP(DrawnQuadPoint(quad.x, quad.size, frac), m.x),
            !.absoluteY = PixelToWindowDP(DrawnQuadPoint(quad.y, quad.size, frac), m.y),
            !.now = now]

\* a paint update on a pixel of the quad of a cell the renderer draws
PaintOnCell(cell, fractions, times) ==
    /\ "draw" \in begun
    /\ \E now \in times : now >= lastDrawExecutionTimeRef
    /\ \E quad \in {DrawnQuad(cell, viewCenterCoords, cellSizeDP, gridContainerMeasurements)} :
           /\ quad.drawn
           /\ \E f \in fractions :
                  \E touch \in {TouchOnCell(quad, f, 0)} :
                      \E now \in times : drawPanGestureOnUpdate([touch EXCEPT !.now = now])
    /\ seed' = [name |-> "aim", row |-> cell.row, col |-> cell.col]

DrawTimes == {1000, 1040}

Layout == (\E l \in Layouts : measureGridContainer(l)) /\ UNCHANGED <<cellVars, simVars, seed, frame>>
DimensionChange == handleDimensionChange /\ UNCHANGED <<cellVars, simVars, seed, frame>>
PanBegin == viewPanGestureOnBegin /\ UNCHANGED <<cellVars, simVars, seed, frame>>
PanUpdate ==
    /\ viewOps < MaxViewOps
    /\ (\E e \in PanEvents : viewPanGestureOnUpdate(e)) /\ UNCHANGED <<liveCells, simVars, seed, frame>>
PinchBegin == pinchGestureOnBegin /\ UNCHANGED <<cellVars, simVars, seed, frame>>
PinchUpdate ==
    /\ viewOps < MaxViewOps
    /\ (\E e \in PinchEvents : pinchGestureOnUpdate(e)) /\ UNCHANGED <<liveCells, simVars, seed, frame>>
DrawBegin == drawPanGestureOnBegin /\ UNCHANGED <<cellVars, simVars, seed, frame>>
TouchDown ==
    /\ contacts < MaxContacts
    /\ TouchesChange(contacts + 1)
    /\ lastOp' = "touchDown"
    /\ UNCHANGED <<cellVars, simVars, seed, frame>>
TouchUp ==
    /\ contacts > 0
    /\ TouchesChange(contacts - 1)
    /\ lastOp' = "touchUp"
    /\ UNCHANGED <<cellVars, simVars, seed, frame>>
\* a stroke over a drawn cell
DrawUpdate ==
    /\ viewOps < MaxViewOps
    /\ \E c \in AimedCells : PaintOnCell(c, AimFractions, DrawTimes)
    /\ UNCHANGED <<drawRest, frame>>
\* a stroke whose position is not a number
DrawUpdateNaN ==
    /\ viewOps < MaxViewOps
    /\ drawPanGestureOnUpdate([NoEvent EXCEPT !.absoluteX = FNaN,
                                              !.absoluteY = IntNum(370), !.now = 1040])
    /\ UNCHANGED <<drawRest, seed, frame>>

NextView ==
    \/ Layout \/ DimensionChange \/ TouchDown \/ TouchUp
    \/ PanBegin \/ PanUpdate \/ PinchBegin \/ PinchUpdate
    \/ DrawBegin \/ DrawUpdate \/ DrawUpdateNaN

SpecView == Init /\ [][NextView]_vars

-----------------------------------------------------------------------------
(* Renderer frames reading the shared values while a pinch writes them *)

\* the variables a read of the frame leaves alone
sharedVars == <<liveCells, lastOp, prevCells, prevGeneration, viewCenterCoords, seed,
                simVars, viewVars, viewHistory>>

\* drawGrid runs once MainGridView is rendered, on the thread of the render
\* loop: const centerRow = viewCenterCoords.value.row
FrameReadCenterRow ==
    /\ gridContainerMeasurements.measured
    /\ frame.pc \in {"idle", "drawn"}
    /\ frame' = [frame EXCEPT !.pc = "row", !.centerRow = viewCenterCoords.row]
    /\ UNCHANGED sharedVars

\* const centerCol = viewCenterCoords.value.col
FrameReadCenterCol ==
    /\ frame.pc = "row"
    /\ frame' = [frame EXCEPT !.pc = "col", !.centerCol = viewCenterCoords.col]
    /\ UNCHANGED sharedVars

\* const currentCellSizeDP = cellSizeDP.value: the frame draws with what it read
FrameReadCellSize ==
    /\ frame.pc = "col"
    /\ frame' = [frame EXCEPT !.pc = "drawn", !.cellSize = cellSizeDP]
    /\ UNCHANGED sharedVars

NextFrame ==
    \/ Layout \/ TouchDown \/ PinchBegin \/ PinchUpdate
    \/ FrameReadCenterRow \/ FrameReadCenterCol \/ FrameReadCellSize

SpecFrame == Init /\ [][NextFrame]_vars

-----------------------------------------------------------------------------
(* Paint strokes over several cells *)

\* Date.now() at the updates of a stroke, each a throttle interval after the last
StrokeTimes == {1000, 1040, 1080}

StrokeUpdate ==
    /\ viewOps < MaxStrokeUpdates
    /\ \E c \in AimedCells : PaintOnCell(c, {Fin(1, 2)}, StrokeTimes)
    /\ UNCHANGED <<drawRest, frame>>

NextStroke ==
    \/ Layout \/ TouchDown \/ TouchUp \/ DrawBegin \/ StrokeUpdate \/ RunPaint \/ Commit

SpecStroke == Init /\ [][NextStroke]_vars

-----------------------------------------------------------------------------
(* The key functions applied to integers of the bound and to other strings *)

\* rows and columns the keys are made of: the limits of the bound, negative
\* numbers, zero, one and several digits
CodecInts == {MIN_COORD_VALUE, -10, -1, 0, 7, 12, MAX_COORD_VALUE}

\* strings handed to stringToCoords: keys, and strings that are no key
CodecStrings ==
    {<<"1", ",", "2">>, <<"-", "1", ",", "-", "2">>,
     <<>>, <<"5">>, <<"1", ",", "2", ",", "3">>, <<",", "2">>, <<"1", ",">>, <<",">>,
     <<"a", ",", "b">>, <<"x", "1", ",", "2">>, <<"-", ",", "2">>,
     <<"1", "x", ",", "2">>, <<"1", ".", "5", ",", "2">>, <<"1", ",", "2", "x">>,
     <<" ", "1", ",", "2">>, <<"+", "1", ",", "2">>, <<"0", "1", ",", "2">>,
     <<"\f", "1", ",", "2">>, <<"1", ",", "U+00A0", "\f", "-", "2">>}

codecRest == <<liveCells, lastOp, prevCells, prevGeneration, viewCenterCoords, seed,
               isRunning, generation, intervalRef, effectPending, initCells, opCount,
               heapVars, viewVars, frame, viewHistory, queueVars, loop>>

RoundTrip ==
    /\ \E row \in CodecInts, col \in CodecInts : codec' = RoundTripCall(row, col, codec)
    /\ UNCHANGED codecRest

Parse ==
    /\ \E str \in CodecStrings : codec' = ParseCall(str, codec)
    /\ UNCHANGED codecRest

NextCodec == RoundTrip \/ Parse

SpecCodec == Init /\ [][NextCodec]_vars

-----------------------------------------------------------------------------
(* Paint requests and timer ticks through the queue of state updates *)

\* the layout callback of the container, laid out with its size and place
QueueLayout ==
    /\ measureGridContainer([width |-> IntNum(400), height |-> IntNum(600),
                             pageX |-> IntNum(0), pageY |-> IntNum(100)])
    /\ UNCHANGED <<cellVars, simVars, seed, frame>>

\* the UI thread: a paint update of the stroke, counted with the dispatches
SendPaint ==
    /\ opCount < MaxDispatches
    /\ \E c \in AimedCells : PaintOnCell(c, {Fin(1, 2)}, DrawTimes)
    /\ opCount' = opCount + 1
    /\ UNCHANGED <<isRunning, generation, intervalRef, effectPending, initCells,
                   heapVars, codec, pendingUpdates, expected, loop, frame>>

\* the timer callback: runSimulationStep queues its updaters
QueueTick ==
    /\ TimerMayFire
    /\ opCount < MaxDispatches
    /\ pendingUpdates' = Append(pendingUpdates,
           [kind |-> "step", row |-> 0, col |-> 0, captured |-> liveCells])
    /\ expected' = NextLiveCells(expected)
    /\ opCount' = opCount + 1
    /\ lastOp' = "queueTick"
    /\ UNCHANGED <<appVars, prevCells, prevGeneration, inFlight, queueRest>>

QueueToggleRun ==
    /\ pendingUpdates = <<>>
    /\ ToggleRun

NextQueue ==
    \/ QueueToggleRun \/ LoopEffect \/ QueueLayout \/ TouchDown \/ DrawBegin
    \/ SendPaint \/ RunPaint \/ QueueTick \/ Commit

SpecQueue == Init /\ [][NextQueue]_vars

\* the controls of the engine while two-finger gestures move the viewport
PanDrag ==
    /\ viewOps < MaxViewOps
    /\ viewPanGestureOnUpdate([NoEvent EXCEPT !.translationX = IntNum(25),
                                              !.translationY = IntNum(-50)])
    /\ UNCHANGED <<liveCells, simVars, seed, frame>>

PinchZoom ==
    /\ viewOps < MaxViewOps
    /\ pinchGestureOnUpdate([NoEvent EXCEPT !.scale = IntNum(2), !.focalX = IntNum(260),
                                            !.focalY = IntNum(370)])
    /\ UNCHANGED <<liveCells, simVars, seed, frame>>

\* strokes whose fingers land and leave in any order, painting and moving the
\* viewport
NextTouch ==
    \/ QueueLayout \/ TouchDown \/ TouchUp \/ DrawBegin \/ DrawUpdate \/ RunPaint \/ Commit
    \/ PanBegin \/ PanDrag \/ PinchBegin \/ PinchZoom

SpecTouch == Init /\ [][NextTouch]_vars

NextClear ==
    \/ ToggleRun \/ LoopEffect \/ Tick \/ Clear
    \/ Layout \/ TouchDown \/ PanBegin \/ PanDrag \/ PinchBegin \/ PinchZoom

SpecClear == Init /\ [][NextClear]_vars

\* randomize with dense draws, around a center the pan has moved
RandomizeDense ==
    /\ \E draws \in DenseDraws : handleRandomize(draws)
    /\ UNCHANGED <<history, viewVars, heapVars, frameVars>>

NextRandom == TouchDown \/ PanBegin \/ PanDrag \/ RandomizeDense

SpecRandom == Init /\ [][NextRandom]_vars

\* the render loop under context creations, app state changes and frames
SpecLoop == Init /\ [][NextLoop]_vars

-----------------------------------------------------------------------------
(* The application at the edge of the coordinate bound *)

\* paint requests on the last row of the bound and beyond it
EdgeDrawTargets ==
    {<<MAX_COORD_VALUE, -1>>, <<MAX_COORD_VALUE, 0>>, <<MAX_COORD_VALUE, 1>>,
     <<MAX_COORD_VALUE + 5, 0>>}

EdgeDraw ==
    (\E t \in EdgeDrawTargets : handleDraw(t[1], t[2])) /\ UNCHANGED <<history, viewVars, heapVars, frameVars>>

NextEdge == EdgeDraw \/ Step \/ Clear \/ Randomize

SpecEdge == Init /\ [][NextEdge]_vars

-----------------------------------------------------------------------------
(* The application with the identity of its Set objects *)

\* the useEffect of MainGridView: liveCellsRef.current = liveCells
RendererEffect ==
    /\ liveCellsRef # liveRef
    /\ liveCellsRef' = liveRef
    /\ UNCHANGED <<appVars, lastOp, prevCells, prevGeneration, history, viewVars,
                   heap, liveRef, prevRef, frameVars>>

\* setLiveCells(updater): the object the updater returns becomes the state
SetLiveCells(objects) ==
    /\ heap' = Publish(objects.heap, objects.ref)
    /\ liveRef' = objects.ref
    /\ prevRef' = liveRef

HeapStep ==
    /\ Len(heap) < MaxObjects
    /\ handleStep
    /\ IF lastOp' = "step"
       THEN \E nextLiveCells \in {calculateNextGeneration(heap[liveRef].cells)} :
                \E objects \in {StepObjects(heap, liveRef, nextLiveCells)} :
                    SetLiveCells(objects)
       ELSE UNCHANGED <<heap, liveRef, prevRef>>
    /\ UNCHANGED <<history, viewVars, liveCellsRef, frameVars>>

HeapDraw ==
    /\ Len(heap) < MaxObjects
    /\ \E t \in DrawTargets :
           /\ handleDraw(t[1], t[2])
           /\ SetLiveCells(DrawObjects(heap, liveRef,
                                       coordsToString(Clamp(t[1]), Clamp(t[2]))))
    /\ UNCHANGED <<history, viewVars, liveCellsRef, frameVars>>

HeapClear ==
    /\ Len(heap) < MaxObjects
    /\ handleClear
    /\ SetLiveCells(FilledObjects(heap, {}))
    /\ UNCHANGED <<history, viewVars, liveCellsRef, frameVars>>

HeapRandomize ==
    /\ Len(heap) < MaxObjects
    /\ \E draws \in SparseDraws(RandomizeBounds(viewCenterCoords)) : handleRandomize(draws)
    /\ IF lastOp' = "randomize" THEN SetLiveCells(FilledObjects(heap, liveCells'))
       ELSE IF lastOp' = "randomizeRejected"
       THEN heap' = Alloc(heap, createEmptyGrid) /\ UNCHANGED <<liveRef, prevRef>>
       ELSE UNCHANGED <<heap, liveRef, prevRef>>
    /\ UNCHANGED <<history, viewVars, liveCellsRef, frameVars>>

NextHeap == HeapStep \/ HeapDraw \/ HeapClear \/ HeapRandomize \/ RendererEffect

SpecHeap == Init /\ [][NextHeap]_vars

-----------------------------------------------------------------------------
(* The generation step applied to every live set of a small grid *)

GridCoords == (-1 .. GridRowMax) \X (-1 .. 1)
GridKeys == {coordsToString(p[1], p[2]) : p \in GridCoords}

InitStep ==
    /\ \E cells \in SUBSET GridKeys : InitApp(cells)
    /\ seed = NoSeed

SpecStep == InitStep /\ [][Step]_vars

-----------------------------------------------------------------------------
(* A catalog pattern seeded alone at an origin, then only stepped *)

Origins == (-OriginSpan .. OriginSpan) \X (-OriginSpan .. OriginSpan)

InitPattern ==
    \E name \in DOMAIN Catalog, o \in Origins :
        /\ InitApp(SeedPattern(createEmptyGrid, Catalog[name], o[1], o[2]))
        /\ seed = [name |-> name, row |-> o[1], col |-> o[2]]

SpecPattern == InitPattern /\ [][Step]_vars

-----------------------------------------------------------------------------
(* A catalog pattern seeded near the origin or far from it, then only stepped *)

\* a row far from the origin
FarRow == 900000

FarOrigins == {0, FarRow} \X (-OriginSpan .. OriginSpan)

InitFar ==
    \E name \in DOMAIN Catalog, o \in FarOrigins :
        /\ InitApp(SeedPattern(createEmptyGrid, Catalog[name], o[1], o[2]))
        /\ seed = [name |-> name, row |-> o[1], col |-> o[2]]

SpecFar == InitFar /\ [][Step]_vars

-----------------------------------------------------------------------------
(* A catalog pattern stamped once onto an existing live set *)

SeedBaseKeys == {coordsToString(p[1], p[2]) : p \in (0 .. 1) \X (0 .. 1)}

InitSeed ==
    /\ \E cells \in SUBSET SeedBaseKeys : InitApp(cells)
    /\ seed = NoSeed

StampPattern ==
    \E name \in DOMAIN Catalog, o \in Origins :
        /\ lastOp = "init"
        /\ liveCells' = SeedPattern(liveCells, Catalog[name], o[1], o[2])
        /\ Remember("seed")
        /\ seed' = [name |-> name, row |-> o[1], col |-> o[2]]
        /\ UNCHANGED <<isRunning, generation, intervalRef, effectPending,
                       viewCenterCoords, initCells, opCount, viewVars,
                       heapVars, frameVars>>

SpecSeed == InitSeed /\ [][StampPattern]_vars

-----------------------------------------------------------------------------
(* The same cell painted twice on every live set of a small grid *)

InitDraw ==
    \E cells \in SUBSET GridKeys, t \in GridCoords :
        /\ InitApp(cells)
        /\ seed = [name |-> "draw", row |-> t[1], col |-> t[2]]

PaintAgain ==
    /\ opCount < 2
    /\ handleDraw(seed.row, seed.col)
    /\ opCount' = opCount + 1
    /\ UNCHANGED <<initCells, seed, viewVars, heapVars, frameVars>>

SpecDraw == InitDraw /\ [][PaintAgain]_vars


-----------------------------------------------------------------------------
(* Claims *)

\* the cells of a live set as <<row, col>> pairs
CellsOf(cells) ==
    {<<stringToCoords(k).row, stringToCoords(k).col>> : k \in cells}

\* the cells that are live or have a live cell among their eight neighbors
NearCells(cells) ==
    UNION {{<<p[1] + dr, p[2] + dc>> : dr \in -1 .. 1, dc \in -1 .. 1} : p \in CellsOf(cells)}

\* the rule B3/S23 applied cell by cell
ConwayNext(cells) ==
    {coordsToString(q[1], q[2]) : q \in
        {p \in NearCells(cells) :
            LET n == countLiveNeighbors(cells, p[1], p[2])
            IN  IF coordsToString(p[1], p[2]) \in cells THEN n \in {2, 3} ELSE n = 3}}

\* C1: a step of any finite live set, the empty one included, leaves exactly
\* the live cells that had 2 or 3 live Moore neighbors and the dead cells that
\* had exactly 3; the empty set steps to the empty set.
C1_StepRule ==
    lastOp = "step" =>
        /\ liveCells = ConwayNext(prevCells)
        /\ prevCells = {} => liveCells = {}

\* a step in which a cell survived, one was born, one died of
\* underpopulation and one of overpopulation
C1_Witness ==
    /\ lastOp = "step"
    /\ prevCells \cap liveCells # {}
    /\ liveCells \ prevCells # {}
    /\ \E p \in CellsOf(prevCells \ liveCells) : countLiveNeighbors(prevCells, p[1], p[2]) < 2
    /\ \E p \in CellsOf(prevCells \ liveCells) : countLiveNeighbors(prevCells, p[1], p[2]) > 3

\* C2: the 5-cell glider seeded at any origin has population 5 after every
\* step and, after exactly 4 steps, is the same glider translated by (+1, +1).
C2_GliderPeriod ==
    seed.name = "InitialGlider" =>
        /\ Cardinality(liveCells) = 5
        /\ generation = 4 =>
               liveCells = {coordsToString(seed.row + 1 + d[1], seed.col + 1 + d[2]) :
                               d \in Range(InitialGlider)}

C2_Witness ==
    /\ seed.name = "InitialGlider"
    /\ seed.row = -2
    /\ seed.col = 1
    /\ generation = 4
    /\ lastOp = "step"

\* C3: the Blinker {(-1,0),(0,0),(1,0)} is {(0,-1),(0,0),(0,1)} after one step
\* and the original set again after the second (the same at every origin).
C3_BlinkerPeriod ==
    seed.name = "Blinker" =>
        /\ generation = 1 =>
               liveCells = {coordsToString(seed.row, seed.col + dc) : dc \in -1 .. 1}
        /\ (generation = 1 /\ seed.row = 0 /\ seed.col = 0) =>
               liveCells = {<<"0", ",", "-", "1">>, <<"0", ",", "0">>, <<"0", ",", "1">>}
        /\ generation = 2 =>
               liveCells = {coordsToString(seed.row + dr, seed.col) : dr \in -1 .. 1}
        /\ (generation = 2 /\ seed.row = 0 /\ seed.col = 0) =>
               liveCells = {<<"-", "1", ",", "0">>, <<"0", ",", "0">>, <<"1", ",", "0">>}

C3_Witness ==
    /\ seed = [name |-> "Blinker", row |-> 0, col |-> 0]
    /\ generation = 2
    /\ lastOp = "step"
    /\ prevCells # liveCells

\* C4: a still life of the catalog (Block, Beehive, Loaf, Boat, Tub) seeded
\* alone at any origin equals the seeded pattern in every state of a run that
\* only steps.
C4_StillLifeFixed ==
    seed.name \in DOMAIN stillLifePatterns =>
        /\ liveCells = initCells
        /\ liveCells = {coordsToString(seed.row + d[1], seed.col + d[2]) :
                           d \in Range(stillLifePatterns[seed.name])}

C4_Witness ==
    /\ seed.name = "Loaf"
    /\ seed.row = 2
    /\ generation >= 2
    /\ lastOp = "step"

\* C5: the paint request returns a set in which the painted cell is live if
\* and only if it was not live before, every other cell keeping its state.
C5_ToggleFlipsCell ==
    (lastOp = "draw" /\ opCount = 1) =>
        LET c == coordsToString(seed.row, seed.col)
        IN  /\ (c \in liveCells) <=> (c \notin prevCells)
            /\ liveCells \ {c} = prevCells \ {c}

\* C6: painting the same cell twice yields a set equal to the one before the
\* first of the two requests.
C6_DoubleToggleIdentity ==
    (lastOp = "draw" /\ opCount = 2) => liveCells = initCells

\* C7: stamping a pattern at an origin onto a live set S yields exactly S
\* united with the pattern's offsets translated by the origin.
C7_StampIsUnion ==
    lastOp = "seed" =>
        liveCells = prevCells \cup
            {coordsToString(seed.row + d[1], seed.col + d[2]) : d \in Range(Catalog[seed.name])}

\* a stamp of the Glider onto a set that it overlaps without covering
C7_Witness ==
    /\ lastOp = "seed"
    /\ seed = [name |-> "Glider", row |-> 1, col |-> -1]
    /\ coordsToString(1, 0) \in prevCells
    /\ Cardinality(prevCells) = 3
    /\ Cardinality(liveCells) = 7

\* the integers of [center - radius, center + radius], both ends included
SquareInterval(centerComponent, radius) ==
    ToInt(Ceil(FSub(centerComponent, IntNum(radius)))) .. ToInt(Floor(FAdd(centerComponent, IntNum(radius))))

\* C8: randomize publishes a subset of the square [center - radius,
\* center + radius] in rows and columns, both ends included, and every cell
\* of that square, the row and the column center + radius included, can be
\* live in the result.
C8_RandomizeCoversSquare ==
    lastOp = "randomize" =>
        LET rows == SquareInterval(viewCenterCoords.row, RandomizeRange)
            cols == SquareInterval(viewCenterCoords.col, RandomizeRange)
            b    == RandomizeBounds(viewCenterCoords)
        IN  /\ \A p \in CellsOf(liveCells) : p[1] \in rows /\ p[2] \in cols
            /\ rows \subseteq RandomizeRows(b)
            /\ cols \subseteq RandomizeCols(b)

\* C10: while isRunning is false the live set and the generation counter
\* change only by a single-step, paint, randomize or clear request, never by
\* the timer.
C10_IdleNoTimerStep ==
    [][(~isRunning /\ (liveCells' # liveCells \/ generation' # generation))
         => lastOp' \in {"step", "draw", "randomize", "clear"}]_vars

\* the timer had stepped, the simulation was paused, and the callback of the
\* interval ran once more before the cleanup of the loop effect cleared it
C10_TickAfterPause ==
    /\ ~isRunning
    /\ lastOp = "tick"
    /\ prevGeneration > 0
    /\ generation = prevGeneration + 1
    /\ liveCells # prevCells
    /\ ~intervalRef

\* C11: a single-step request made while the simulation is running changes
\* neither the live set nor the generation counter; made while idle it
\* advances the simulation by exactly one generation.
C11_StepOnlyWhileIdle ==
    lastOp \in {"step", "stepIgnored"} =>
        IF isRunning
        THEN liveCells = prevCells /\ generation = prevGeneration
        ELSE liveCells = ConwayNext(prevCells) /\ generation = prevGeneration + 1

\* a request ignored while the timer is set and has already stepped
C11_Witness ==
    /\ lastOp = "stepIgnored"
    /\ isRunning
    /\ intervalRef
    /\ generation > 0
    /\ liveCells # calculateNextGeneration(liveCells)

\* the logical point under a screen point, with the mapping of the paint gesture
LogicalUnder(screenX_DP, screenY_DP, view, m) ==
    [row |-> TouchToLogical(screenY_DP, m.y, m.height, view.center.row, view.cellSize),
     col |-> TouchToLogical(screenX_DP, m.x, m.width, view.center.col, view.cellSize)]

\* the viewport the running pinch started from
PinchStartView ==
    [center |-> pinchStartContext.startViewCenter,
     cellSize |-> pinchStartContext.startCellSize]

\* a pinch update with a finite scale and focal point on a valid container
FinitePinchApplied ==
    /\ lastOp = "pinchUpdate"
    /\ ~ContainerInvalid(gridContainerMeasurements)
    /\ isFinite(lastEvent.scale) /\ isFinite(lastEvent.focalX) /\ isFinite(lastEvent.focalY)

\* the two numbers differ by no more than the tolerance
Within(x, y, tolerance) == FLe(FSub(x, y), tolerance) /\ FLe(FSub(y, x), tolerance)

\* a millionth of a cell: the center is solved in doubles, so the point under
\* P comes back with the rounding of a few operations on it
FocalTolerance == Fin(1, 1000000)

FocalPointKept ==
    LET new == LogicalUnder(lastEvent.focalX, lastEvent.focalY, CurrentView,
                            gridContainerMeasurements)
        start == LogicalUnder(lastEvent.focalX, lastEvent.focalY, PinchStartView,
                              gridContainerMeasurements)
    IN  /\ Within(new.row, start.row, FocalTolerance)
        /\ Within(new.col, start.col, FocalTolerance)

StrictlyInsideBound(x) ==
    FLt(IntNum(MIN_COORD_VALUE), x) /\ FLt(x, IntNum(MAX_COORD_VALUE))

\* C12 (as stated): after a pinch update with any scale factor and focal point
\* P on a valid container, the logical point under P with the new center and
\* cell size equals, within the tolerance, the logical point under P with those
\* of the gesture start.
C12_FocalInvariantAlways == FinitePinchApplied => FocalPointKept

\* C12 (amended): the same, whenever the recomputed center lies strictly inside
\* the coordinate bound, also when the new cell size is clamped to MIN or MAX;
\* a center clamped to the bound moves the point under P.
C12_FocalInvariantUnclamped ==
    (/\ FinitePinchApplied
     /\ StrictlyInsideBound(viewCenterCoords.row)
     /\ StrictlyInsideBound(viewCenterCoords.col)) => FocalPointKept

\* a pinch whose cell size was clamped to MAX and whose center moved
C12_Witness ==
    /\ FinitePinchApplied
    /\ StrictlyInsideBound(viewCenterCoords.row)
    /\ StrictlyInsideBound(viewCenterCoords.col)
    /\ cellSizeDP = IntNum(MAX_CELL_SIZE_DP)
    /\ FLt(IntNum(MAX_CELL_SIZE_DP), FMul(pinchStartContext.startCellSize, lastEvent.scale))
    /\ viewCenterCoords.row # pinchStartContext.startViewCenter.row
    /\ viewCenterCoords.col # pinchStartContext.startViewCenter.col

\* C13: a touch on any pixel strictly inside the quad the renderer draws for a
\* cell (r, c), under any viewport and valid container, is converted by the
\* paint gesture to the cell (r, c): the gesture remembers that cell and the
\* call of handleDraw it sends names it.
C13_DrawnCellMapsBack ==
    (lastOp \in {"draw", "drawSameCell"} /\ seed.name = "aim") =>
        /\ lastActivatedCellCoords = [row |-> seed.row, col |-> seed.col]
        /\ lastOp = "draw" =>
               /\ inFlight # <<>>
               /\ inFlight[Len(inFlight)] = [row |-> seed.row, col |-> seed.col]

\* a touch on a cell beside the center, the view zoomed and its center not on
\* a cell corner
C13_Witness ==
    /\ lastOp = "draw"
    /\ seed.name = "aim"
    /\ seed.col = ToInt(Floor(viewCenterCoords.col)) + 3
    /\ Floor(viewCenterCoords.col) # viewCenterCoords.col
    /\ Floor(viewCenterCoords.row) # viewCenterCoords.row
    /\ cellSizeDP # IntNum(INITIAL_CELL_SIZE_DP)
    /\ inFlight = <<[row |-> seed.row, col |-> seed.col]>>

\* the last gesture update carried a value that is not a finite number
NonFiniteUpdate ==
    \/ /\ lastOp = "panUpdate"
       /\ ~isFinite(lastEvent.translationX) \/ ~isFinite(lastEvent.translationY)
    \/ /\ lastOp = "pinchUpdate"
       /\ \/ ~isFinite(lastEvent.scale)
          \/ ~isFinite(lastEvent.focalX)
          \/ ~isFinite(lastEvent.focalY)

\* C14: a pan or pinch update that meets a NaN or infinite translation, scale
\* or focal point leaves the center and the cell size as they were before it.
C14_NonFiniteUpdateAborts == NonFiniteUpdate => CurrentView = prevView

\* x brought into [-1000000, 1000000]
IntoCoordBound(x) ==
    IF FLt(x, IntNum(-1000000)) THEN IntNum(-1000000)
    ELSE IF FLt(IntNum(1000000), x) THEN IntNum(1000000) ELSE x

\* the center a pan by (dx, dy) is to give: the center of the gesture start
\* moved by -(d / cellSize) * 1.5, each component clamped
PannedFromStart(dx, dy) ==
    [row |-> IntoCoordBound(FSub(panGestureContext.startRow,
                                 FMul(FDiv(dy, prevView.cellSize), Fin(3, 2)))),
     col |-> IntoCoordBound(FSub(panGestureContext.startCol,
                                 FMul(FDiv(dx, prevView.cellSize), Fin(3, 2))))]

\* C15: a pan update with a finite screen translation (dx, dy) puts the center
\* at the gesture-start center moved by -(dx / cellSize) * sensitivity in col
\* and -(dy / cellSize) * sensitivity in row, clamped to the coordinate bound;
\* a drag to the right never increases the center col.
C15_PanMovesCenter ==
    (/\ lastOp = "panUpdate"
     /\ isFinite(lastEvent.translationX)
     /\ isFinite(lastEvent.translationY)) =>
        /\ viewCenterCoords = PannedFromStart(lastEvent.translationX, lastEvent.translationY)
        /\ cellSizeDP = prevView.cellSize
        /\ FLt(IntNum(0), lastEvent.translationX) =>
               FLe(viewCenterCoords.col, panGestureContext.startCol)
        /\ (FLt(IntNum(0), lastEvent.translationX)
                /\ FLt(IntNum(MIN_COORD_VALUE), viewCenterCoords.col)) =>
               FLt(viewCenterCoords.col, panGestureContext.startCol)

\* a drag right and up by (25, -50) DPs at a zoomed cell size
C15_Witness ==
    /\ lastOp = "panUpdate"
    /\ lastEvent.translationX = IntNum(25)
    /\ lastEvent.translationY = IntNum(-50)
    /\ cellSizeDP = IntNum(50)
    /\ FLt(viewCenterCoords.col, panGestureContext.startCol)
    /\ FLt(panGestureContext.startRow, viewCenterCoords.row)
    /\ viewCenterCoords.col = FSub(panGestureContext.startCol, Fin(3, 4))

\* C16: in every state reached by pan and pinch updates with any event values
\* the cell size is a finite number in [5, 100] and both center components
\* are finite numbers in [-1000000, 1000000].
C16_ViewportInBounds ==
    /\ isFinite(cellSizeDP)
    /\ FLe(IntNum(5), cellSizeDP) /\ FLe(cellSizeDP, IntNum(100))
    /\ \A x \in {viewCenterCoords.row, viewCenterCoords.col} :
           /\ isFinite(x)
           /\ FLe(IntNum(-1000000), x) /\ FLe(x, IntNum(1000000))

\* a center driven to the bound by a pan and a cell size driven to the
\* minimum by a pinch
C16_Witness ==
    /\ lastOp = "pinchUpdate"
    /\ viewCenterCoords.row = IntNum(MAX_COORD_VALUE)
    /\ cellSizeDP = IntNum(MIN_CELL_SIZE_DP)
    /\ FLt(FMul(pinchStartContext.startCellSize, lastEvent.scale), IntNum(MIN_CELL_SIZE_DP))

\* C17: in every state reached by step, paint, randomize and clear, every
\* coordinate of the live set has its row and its col in [-1000000, 1000000].
C17_LiveCellsInBound ==
    \A p \in CellsOf(liveCells) :
        /\ -1000000 <= p[1] /\ p[1] <= 1000000
        /\ -1000000 <= p[2] /\ p[2] <= 1000000

\* the container is not measured, or has zero width or height
GeometryInvalid ==
    \/ ~gridContainerMeasurements.measured
    \/ ~FLt(IntNum(0), gridContainerMeasurements.width)
    \/ ~FLt(IntNum(0), gridContainerMeasurements.height)

\* the last action was a pinch or paint update made on an invalid container
UpdateOnInvalidGeometry ==
    /\ lastOp \in {"pinchUpdate", "draw", "drawIgnored", "drawThrottled",
                   "drawInvalid", "drawSameCell"}
    /\ GeometryInvalid

\* C18: while the container geometry is invalid, a pinch or paint
\* update changes neither the center, nor the cell size, nor the live set.
C18_InvalidGeometryNoOp ==
    UpdateOnInvalidGeometry => (CurrentView = prevView /\ liveCells = prevCells)

\* a pinch on a container laid out with zero size that changed the cell size
C18_Witness ==
    /\ lastOp = "pinchUpdate"
    /\ GeometryInvalid
    /\ gridContainerMeasurements.y = IntNum(100)
    /\ lastEvent.scale = IntNum(2)
    /\ isFinite(lastEvent.focalX) /\ isFinite(lastEvent.focalY)
    /\ cellSizeDP = IntNum(50)
    /\ prevView.cellSize = IntNum(25)

\* liveCells is the contents of the object the state holds
HeapAgrees == heap[liveRef].cells = liveCells

\* C19: no operation changes a Set object after it became the liveCells state:
\* every published object still has the contents it was published with, so
\* the input of a step and the object a frame iterates never change
C19_PublishedSetsImmutable ==
    /\ HeapAgrees
    /\ \A ref \in 1 .. Len(heap) :
           heap[ref].published => heap[ref].cells = heap[ref].snapshot

\* a paint and a step have each published a new object while the renderer
\* still holds an older one with other contents
C19_Witness ==
    /\ lastOp \in {"draw", "step"}
    /\ Len(heap) >= 3
    /\ liveCellsRef # liveRef
    /\ heap[liveCellsRef].published
    /\ heap[liveCellsRef].cells # liveCells
    /\ \E ref \in 1 .. Len(heap) : ref # liveRef /\ heap[ref].published
                                    /\ Cardinality(heap[ref].cells) < Cardinality(liveCells)

\* the (center, cellSize) pair the frame drew with
FramePair ==
    [center |-> [row |-> frame.centerRow, col |-> frame.centerCol],
     cellSize |-> frame.cellSize]

\* C20: every (center, cellSize) pair a frame draws with is the pair left by
\* one complete gesture update or the initial pair: no frame pairs the cell
\* size of a zoom update with a center from before that update
C20_FrameSeesOneUpdate ==
    frame.pc = "drawn" => FramePair \in viewHistory \cup {CurrentView}

PaintOps == {"draw", "drawIgnored", "drawThrottled", "drawInvalid", "drawSameCell"}

ViewOps == {"panUpdate", "pinchUpdate"}

\* C21: within one stroke, from the first finger that lands to the last that
\* leaves, the gesture updates either modify only the viewport or only send
\* paint requests, never both, also when the number of fingers changes
\* during the stroke
C21_StrokePaintsOrMovesView == ~({"paint", "view"} \subseteq stroke)

\* one finger painted a cell, a second finger landed without the first
\* leaving, and a pinch or pan update of the same stroke moved the viewport
C21_PaintThenView ==
    /\ lastOp \in ViewOps
    /\ contacts = 2
    /\ CurrentView # prevView
    /\ sentCells # <<>>
    /\ stroke = {"paint", "view"}

\* C22: within one paint stroke no cell is sent more than one paint request,
\* whatever the order in which the updates resolve to cells
C22_NoCellSentTwice ==
    \A i, j \in 1 .. Len(sentCells) : i # j => sentCells[i] # sentCells[j]

\* a new stroke painted again the cell the stroke before it had painted last
C22_NewStrokeRepaints ==
    /\ lastOp = "draw"
    /\ Len(sentCells) = 1
    /\ viewOps = 2
    /\ lastActivatedCellCoords = sentCells[1]
    /\ coordsToString(sentCells[1].row, sentCells[1].col) \in prevCells

\* C23: for all integers row and col within the coordinate bound, negative
\* ones included, stringToCoords(coordsToString(row, col)) is exactly
\* (row, col), and two different pairs never get the same key
C23_KeyRoundTrip ==
    codec.op = "roundTrip" =>
        /\ codec.parsed = [row |-> codec.row, col |-> codec.col]
        /\ (<<codec.lastRow, codec.lastCol>> # <<codec.row, codec.col>>
                => codec.lastStr # codec.str)

\* the pair of the two limits of the bound was encoded after the pair (-1, 0)
C23_Witness ==
    /\ codec.op = "roundTrip"
    /\ codec.row = MIN_COORD_VALUE /\ codec.col = MAX_COORD_VALUE
    /\ codec.lastRow = -1 /\ codec.lastCol = 0
    /\ codec.lastStr = <<"-", "1", ",", "0">>
    /\ codec.parsed.row = -1000000

\* the decimal literal of an integer: an optional minus sign and digits, with
\* no leading zero and no negative zero
IsIntLiteral(s) ==
    LET digits == IF Len(s) > 0 /\ s[1] = "-" THEN Tail(s) ELSE s
    IN  /\ Len(digits) > 0
        /\ \A i \in 1 .. Len(digits) : IsDigit(digits[i])
        /\ Len(digits) > 1 => digits[1] # "0"
        /\ digits = <<"0">> => digits = s

\* the string is the key of an integer pair: two integer literals and one comma
IsKeyString(s) ==
    \E i \in 1 .. Len(s) :
        /\ s[i] = ","
        /\ IsIntLiteral(SubSeq(s, 1, i - 1))
        /\ IsIntLiteral(SubSeq(s, i + 1, Len(s)))

\* C24: stringToCoords returns null for every string that is not the key of
\* an integer pair: a wrong number of parts, an empty or non-numeric part, or
\* a part with characters after the digits
C24_MalformedIsNull ==
    (codec.op = "parse" /\ ~IsKeyString(codec.str)) => codec.parsed = NULL

\* a string with an empty part was refused
C24_Witness ==
    /\ codec.op = "parse"
    /\ codec.str = <<",", "2">>
    /\ codec.parsed = NULL

\* the same cells seen from the origin the pattern was seeded at
CellsAtOrigin(cells) ==
    {coordsToString(p[1] - seed.row, p[2] - seed.col) : p \in CellsOf(cells)}

\* C25: a step of a live set of population N makes at most 9N cell-neighbor
\* membership checks, and as many for a pattern at row 900000 as for the
\* same pattern at the origin
C25_ChecksLinearInPopulation ==
    lastOp = "step" =>
        /\ MembershipChecks(prevCells, prevCells) <= 9 * Cardinality(prevCells)
        /\ MembershipChecks(prevCells, prevCells) =
               MembershipChecks(CellsAtOrigin(prevCells), CellsAtOrigin(prevCells))

\* a glider far from the origin was stepped: 5 cells, 40 checks
C25_Witness ==
    /\ lastOp = "step"
    /\ seed.name = "Glider"
    /\ seed.row = FarRow
    /\ Cardinality(prevCells) = 5
    /\ MembershipChecks(prevCells, prevCells) = 40
    /\ \A p \in CellsOf(prevCells) : p[1] > 800000

\* C26: a step whose next generation is set-equal to the live set leaves the
\* state holding the very same object; a step whose result differs publishes
\* the new set; both add exactly 1 to the generation counter
C26_SameObjectWhenEqual ==
    lastOp = "step" =>
        /\ generation = prevGeneration + 1
        /\ calculateNextGeneration(prevCells) = prevCells => liveRef = prevRef
        /\ calculateNextGeneration(prevCells) # prevCells =>
               /\ liveRef # prevRef
               /\ liveRef = Len(heap)
               /\ heap[liveRef].cells = calculateNextGeneration(prevCells)

\* the empty set after a clear was stepped: the object stayed, the counter moved
C26_Witness ==
    /\ lastOp = "step"
    /\ prevCells = {}
    /\ liveRef = prevRef
    /\ ~heap[Len(heap)].published
    /\ generation = 1 /\ prevGeneration = 0

\* a step of the glider published the new object
C26_WitnessChanged ==
    /\ lastOp = "step"
    /\ liveCells # prevCells
    /\ liveRef = Len(heap) /\ liveRef # prevRef

-----------------------------------------------------------------------------
(* Paint requests and steps in dispatch order *)

\* C27: paint requests and simulation steps are applied to the latest live
\* set in the order their handlers ran: the state, once the queued updaters
\* are applied, is the set obtained by applying each paint and each step in
\* turn, so a cell painted before a step is part of that step's input and no
\* update is lost.
C27_NoLostUpdate == ApplyUpdates(pendingUpdates, liveCells) = expected

\* a render while Running applied a paint and then a step, and the painted
\* cell changed the step's result
C27_Witness ==
    /\ lastOp = "commit"
    /\ isRunning
    /\ generation = prevGeneration + 1
    /\ liveCells # NextLiveCells(prevCells)
    /\ \E c \in AimedCells : liveCells = NextLiveCells(DrawnCells(prevCells, c.row, c.col))

-----------------------------------------------------------------------------
(* Two-finger pan and pinch running together *)

\* centers the other gesture could have left behind
ProbeCenters ==
    {[row |-> IntNum(0), col |-> IntNum(0)], [row |-> IntNum(7), col |-> Fin(-7, 2)]}

\* what the last pan update leaves had the center been `center` and the cell
\* size `cellSize` when it ran
PanResultWith(center, cellSize) ==
    PanUpdateCenter(lastEvent, panGestureContext, cellSize, center)

\* what the last pan update leaves had the center been `center` when it ran
PanResultFrom(center) == PanResultWith(center, cellSizeDP)

\* what the last pinch update leaves had the center been `center` when it ran
PinchResultFrom(center) ==
    PinchUpdateView(lastEvent, pinchStartContext, gridContainerMeasurements,
                    [center |-> center, cellSize |-> prevView.cellSize]).center

\* C28 as stated: with the pan and the pinch running together, the center an
\* update leaves has no contribution of the other gesture's earlier updates:
\* a pinch update leaves the center it would leave whatever center the pan
\* wrote, and a pan update leaves the center it would leave had the pinch
\* updates before it not run, the cell size still the one of the pinch's
\* begin.
C28_NoEarlierContribution ==
    /\ lastOp = "pinchUpdate" =>
           \/ \A center \in ProbeCenters : PinchResultFrom(center) = center
           \/ \A center \in ProbeCenters : PinchResultFrom(center) = viewCenterCoords
    /\ (lastOp = "panUpdate" /\ "pinch" \in begun) =>
           PanResultWith(prevView.center, pinchStartContext.startCellSize) = viewCenterCoords

\* C28 as amended: with the pan and the pinch running together, an update
\* either leaves the center alone or sets it to a value that does not depend
\* on the center it found: a pinch update computes it from the pinch-start
\* snapshot, the scale and the focal point, a pan update from the pan-start
\* center, the translation and the current cell size. The center is then
\* the value of the last update that wrote, whatever center the other
\* gesture wrote before; the cell size a pinch update wrote does enter the
\* pan updates after it.
C28_LastUpdateDecides ==
    /\ lastOp = "pinchUpdate" =>
           \/ \A center \in ProbeCenters : PinchResultFrom(center) = center
           \/ \A center \in ProbeCenters : PinchResultFrom(center) = viewCenterCoords
    /\ lastOp = "panUpdate" =>
           \/ \A center \in ProbeCenters : PanResultFrom(center) = center
           \/ \A center \in ProbeCenters : PanResultFrom(center) = viewCenterCoords

\* both gestures run; a pan update moved the center after the pinch began,
\* and the pinch update that followed wrote a center of its own
C28_Witness ==
    /\ lastOp = "pinchUpdate"
    /\ {"pan", "pinch"} \subseteq begun
    /\ prevView.center # pinchStartContext.startViewCenter
    /\ viewCenterCoords # prevView.center
    /\ \A center \in ProbeCenters : PinchResultFrom(center) = viewCenterCoords

\* both gestures run; a pinch update changed the cell size after the pan
\* began, and the pan update that followed wrote a center of its own, another
\* one than it would have written with the cell size of the pinch's begin
C28_WitnessPan ==
    /\ lastOp = "panUpdate"
    /\ {"pan", "pinch"} \subseteq begun
    /\ cellSizeDP # pinchStartContext.startCellSize
    /\ PanResultWith(prevView.center, pinchStartContext.startCellSize) # viewCenterCoords
    /\ prevView.center # [row |-> panGestureContext.startRow, col |-> panGestureContext.startCol]
    /\ viewCenterCoords # prevView.center
    /\ \A center \in ProbeCenters : PanResultFrom(center) = viewCenterCoords

-----------------------------------------------------------------------------
(* The render loop *)

-----------------------------------------------------------------------------
(* Clear *)

=============================================================================
